---------------------------- MODULE Spec2Model ----------------------------
(***************************************************************************)
(* A model of the openclaw-sandbox CLI: the provisioning orchestration     *)
(* (orchestrate_up), the VM supervisor (LimaManager), the dependency gate, *)
(* the configuration builder, the profile validator and the entry points   *)
(* that start or stop a sandbox (CLI `up`, `down`, `destroy`; MCP          *)
(* `sandbox_up`).                                                          *)
(*                                                                         *)
(* External tools (brew, ansible-galaxy, limactl, ansible-playbook, rsync) *)
(* are the environment: every call to one of them draws its outcome        *)
(* nondeterministically from a small set.                                   *)
(***************************************************************************)
EXTENDS Integers, Sequences, FiniteSets, TLC

(***************************************************************************)
(* Bounds of the model.                                                    *)
(***************************************************************************)
\* Exit codes of external tools range over 0..MaxRc.
MaxRc == 2

ExitCodes == 0..MaxRc

\* lima_manager.py:13
VM_NAME == "openclaw-sandbox"

(***************************************************************************)
(* models.py: SandboxProfile.  A mount field is TRUE when the profile      *)
(* holds a non-empty path for that role.                                   *)
(***************************************************************************)
MountFields == {"openclaw", "config", "agent_data", "buildlog_data", "secrets", "vault"}

\* Values of mode.memgraph_ports: no port, one port, two ports.
PortLists == {<<>>, <<9999>>, <<9999, 7687>>}

\* Values of extra_vars: a dict in insertion order, as a sequence of pairs
\* with distinct keys.  A key may be one that build_extra_vars sets itself.
ExtraVars ==
    {<<>>,
     <<[key |-> "my_var", value |-> "my_val"]>>,
     <<[key |-> "memgraph_enabled", value |-> "false"]>>,
     <<[key |-> "my_var", value |-> "my_val"],
       [key |-> "tenant_name", value |-> "other"]>>}

SandboxProfile ==
    [openclaw : BOOLEAN, config : BOOLEAN, agent_data : BOOLEAN,
     buildlog_data : BOOLEAN, secrets : BOOLEAN, vault : BOOLEAN,
     yolo : BOOLEAN, yolo_unsafe : BOOLEAN, memgraph : BOOLEAN,
     memgraph_ports : PortLists, no_docker : BOOLEAN, extra_vars : ExtraVars]

\* The profiles with Docker enabled and no extra variables.
PlainProfiles == {p \in SandboxProfile : ~p.no_docker /\ p.extra_vars = <<>>}

(***************************************************************************)
(* The host file system, as far as the program reads it: which mount       *)
(* paths exist, whether the vault path is a directory, and whether the     *)
(* secrets file is readable and holds the required keys.                   *)
(***************************************************************************)
HostFs ==
    {fs \in [exists : SUBSET MountFields, vault_is_dir : BOOLEAN,
             secrets_readable : BOOLEAN, required_keys : BOOLEAN,
             optional_keys : BOOLEAN] :
        fs.vault_is_dir => "vault" \in fs.exists}

(***************************************************************************)
(* validation.py                                                           *)
(***************************************************************************)
\* The order in which _check_paths walks the mount fields (dict order).
PathCheckOrder == <<"openclaw", "config", "agent_data", "buildlog_data", "secrets", "vault">>

RECURSIVE PathErrors(_, _, _)
PathErrors(p, fs, k) ==
    IF k > Len(PathCheckOrder) THEN <<>>
    ELSE LET name == PathCheckOrder[k]
         IN  (IF p[name] /\ name \notin fs.exists
              THEN <<[kind |-> "path_missing", field |-> name]>>
              ELSE <<>>) \o PathErrors(p, fs, k + 1)

_check_paths(p, fs, result) ==
    [result EXCEPT !.errors = @ \o PathErrors(p, fs, 1)]

_check_secrets(p, fs, result) ==
    IF ~p.secrets
    THEN [result EXCEPT !.warnings = Append(@, [kind |-> "no_secrets"])]
    ELSE IF "secrets" \notin fs.exists
    THEN result
    ELSE IF ~fs.secrets_readable
    THEN [result EXCEPT !.errors = Append(@, [kind |-> "secrets_unreadable"])]
    ELSE LET r1 == IF ~fs.required_keys
                   THEN [result EXCEPT !.errors =
                            Append(@, [kind |-> "missing_required_keys"])]
                   ELSE result
         IN  IF ~fs.optional_keys
             THEN [r1 EXCEPT !.warnings = Append(@, [kind |-> "missing_optional_keys"])]
             ELSE r1

_check_coherence(p, result) ==
    LET r1 == IF p.yolo /\ p.yolo_unsafe
              THEN [result EXCEPT !.errors = Append(@, [kind |-> "mutually_exclusive"])]
              ELSE result
    IN  IF ~p.openclaw
        THEN [r1 EXCEPT !.warnings = Append(@, [kind |-> "no_openclaw"])]
        ELSE r1

\* Mutant: validation stops at the first check that reported an error.
validate_profile_short_circuit(p, fs) ==
    LET r1 == _check_paths(p, fs, [errors |-> <<>>, warnings |-> <<>>])
        r2 == IF Len(r1.errors) > 0 THEN r1 ELSE _check_secrets(p, fs, r1)
    IN  IF Len(r2.errors) > 0 THEN r2 ELSE _check_coherence(p, r2)

validate_profile(p, fs) ==
    _check_coherence(p, _check_secrets(p, fs, _check_paths(p, fs,
        [errors |-> <<>>, warnings |-> <<>>])))

\* ValidationResult.ok
ok(result) == Len(result.errors) = 0


(***************************************************************************)
(* lima_config.py                                                          *)
(***************************************************************************)
MountSpec(location, mount_point, writable) ==
    [location |-> location, mount_point |-> mount_point, writable |-> writable]

PortForwardSpec(port) == [guest_port |-> port, host_port |-> port, proto |-> "tcp"]

\* Mutant: the config mount is appended before the vault mount.
build_mounts_config_first(p) ==
    LET writable == p.yolo_unsafe
    IN  (IF p.openclaw
         THEN <<MountSpec("openclaw", "/mnt/openclaw", writable)>> ELSE <<>>)
        \o <<MountSpec("bootstrap_dir", "/mnt/provision", FALSE)>>
        \o (IF p.config
            THEN <<MountSpec("config", "/mnt/openclaw-config", writable)>> ELSE <<>>)
        \o (IF p.vault
            THEN <<MountSpec("vault", "/mnt/obsidian", writable)>> ELSE <<>>)
        \o (IF p.agent_data
            THEN <<MountSpec("agent_data", "/mnt/openclaw-agents", TRUE)>> ELSE <<>>)
        \o (IF p.buildlog_data
            THEN <<MountSpec("buildlog_data", "/mnt/buildlog-data", TRUE)>> ELSE <<>>)
        \o (IF p.secrets
            THEN <<MountSpec("parent(secrets)", "/mnt/secrets", FALSE)>> ELSE <<>>)

\* Mutant: the safe-overlay flag makes the host mounts writable too.
build_mounts_yolo_writable(p) ==
    LET writable == p.yolo_unsafe \/ p.yolo
    IN  (IF p.openclaw
         THEN <<MountSpec("openclaw", "/mnt/openclaw", writable)>> ELSE <<>>)
        \o <<MountSpec("bootstrap_dir", "/mnt/provision", FALSE)>>
        \o (IF p.vault
            THEN <<MountSpec("vault", "/mnt/obsidian", writable)>> ELSE <<>>)
        \o (IF p.config
            THEN <<MountSpec("config", "/mnt/openclaw-config", writable)>> ELSE <<>>)
        \o (IF p.agent_data
            THEN <<MountSpec("agent_data", "/mnt/openclaw-agents", TRUE)>> ELSE <<>>)
        \o (IF p.buildlog_data
            THEN <<MountSpec("buildlog_data", "/mnt/buildlog-data", TRUE)>> ELSE <<>>)
        \o (IF p.secrets
            THEN <<MountSpec("parent(secrets)", "/mnt/secrets", FALSE)>> ELSE <<>>)

\* The mount list of build_context, in the order of its append calls.
build_mounts(p) ==
    LET writable == p.yolo_unsafe
    IN  (IF p.openclaw
         THEN <<MountSpec("openclaw", "/mnt/openclaw", writable)>> ELSE <<>>)
        \o <<MountSpec("bootstrap_dir", "/mnt/provision", FALSE)>>
        \o (IF p.vault
            THEN <<MountSpec("vault", "/mnt/obsidian", writable)>> ELSE <<>>)
        \o (IF p.config
            THEN <<MountSpec("config", "/mnt/openclaw-config", writable)>> ELSE <<>>)
        \o (IF p.agent_data
            THEN <<MountSpec("agent_data", "/mnt/openclaw-agents", TRUE)>> ELSE <<>>)
        \o (IF p.buildlog_data
            THEN <<MountSpec("buildlog_data", "/mnt/buildlog-data", TRUE)>> ELSE <<>>)
        \o (IF p.secrets
            THEN <<MountSpec("parent(secrets)", "/mnt/secrets", FALSE)>> ELSE <<>>)

\* Mutant: the explicit ports are appended after the fixed ones.
build_port_forwards_both(p) ==
    <<PortForwardSpec(18789)>>
    \o (IF p.memgraph
        THEN <<PortForwardSpec(7687), PortForwardSpec(3000), PortForwardSpec(7444)>>
        ELSE <<>>)
    \o [k \in 1..Len(p.memgraph_ports) |-> PortForwardSpec(p.memgraph_ports[k])]

\* The port-forward list of build_context: the default port, then the three
\* memgraph ports, or else (elif) one entry per value of memgraph_ports.
build_port_forwards(p) ==
    <<PortForwardSpec(18789)>>
    \o (IF p.memgraph
        THEN <<PortForwardSpec(7687), PortForwardSpec(3000), PortForwardSpec(7444)>>
        ELSE IF p.memgraph_ports # <<>>
        THEN [k \in 1..Len(p.memgraph_ports) |-> PortForwardSpec(p.memgraph_ports[k])]
        ELSE <<>>)

\* The side effect of build_context on the host: mkdir(parents, exist_ok) of
\* the agent_data and buildlog_data directories.
build_mkdirs(p, fs) ==
    [fs EXCEPT !.exists = @ \cup {f \in {"agent_data", "buildlog_data"} : p[f]}]

\* Mutant: the agent-data and build-log mounts are listed only when their
\* directory existed before the call.
build_context_skips_missing(p, fs) ==
    [ctx |-> [mounts |-> SelectSeq(build_mounts(p),
                            LAMBDA m : m.location \in {"agent_data", "buildlog_data"}
                                           => m.location \in fs.exists),
              port_forwards |-> build_port_forwards(p)],
     fs  |-> build_mkdirs(p, fs)]

build_context(p, fs) ==
    [ctx |-> [mounts |-> build_mounts(p), port_forwards |-> build_port_forwards(p)],
     fs  |-> build_mkdirs(p, fs)]

\* The path write_config writes and returns: lima/<VM_NAME>.generated.yaml.
GeneratedYaml == "lima/openclaw-sandbox.generated.yaml"

(***************************************************************************)
(* lima_manager.py: the `limactl list --json` query.  Its output is a      *)
(* sequence of lines; a line is malformed (json.loads raises               *)
(* JSONDecodeError), a JSON value that is not an object (null, a number, a *)
(* string, an array), or a JSON object with an optional name and an        *)
(* optional status ("none" stands for an absent key).                      *)
(***************************************************************************)
BadLine == [kind |-> "bad"]

\* json.loads returns a value without a get method.
ValueLine == [kind |-> "value"]

Entry(name, status) == [kind |-> "entry", name |-> name, status |-> status]

\* What Lima prints for the other instances of the host, before our VM.
OtherLines == {<<>>, <<BadLine>>, <<Entry("default", "Running")>>}

\* The lines of a successful list query when the VM's state is vm.
ListLines(vm, others) ==
    others \o (IF vm = "absent" THEN <<>> ELSE <<Entry(VM_NAME, vm)>>)

\* A list query: exit code and lines.
ListQueries(vm) ==
    {[returncode |-> 1, lines |-> <<>>]}
    \cup {[returncode |-> 0, lines |-> ListLines(vm, o)] : o \in OtherLines}

RECURSIVE FirstMatch(_, _)
\* Index of the first well-formed line naming VM_NAME at or after k; 0 if none.
FirstMatch(lines, k) ==
    IF k > Len(lines) THEN 0
    ELSE IF lines[k].kind = "bad" THEN FirstMatch(lines, k + 1)
    ELSE IF lines[k].kind = "value" THEN 0    \* the scan ends here: ScanRaises
    ELSE IF lines[k].name = VM_NAME THEN k
    ELSE FirstMatch(lines, k + 1)

RECURSIVE ScanRaises(_, _)
\* The scan from line k reaches a JSON value that is not an object before any
\* match: entry.get raises AttributeError, which the loop does not catch.
ScanRaises(lines, k) ==
    IF k > Len(lines) THEN FALSE
    ELSE IF lines[k].kind = "bad" THEN ScanRaises(lines, k + 1)
    ELSE IF lines[k].kind = "value" THEN TRUE
    ELSE IF lines[k].name = VM_NAME THEN FALSE
    ELSE ScanRaises(lines, k + 1)

\* What a query method raises on the output proc.
ListRaised(proc) ==
    IF proc.returncode = 0 /\ ScanRaises(proc.lines, 1) THEN "AttributeError" ELSE "none"

vm_exists(proc) ==
    IF proc.returncode # 0 THEN FALSE
    ELSE FirstMatch(proc.lines, 1) # 0

vm_status(proc) ==
    IF proc.returncode # 0 THEN "unknown"
    ELSE LET k == FirstMatch(proc.lines, 1)
         IN  IF k = 0 THEN "unknown"
             ELSE IF proc.lines[k].status = "none" THEN "unknown"
             ELSE proc.lines[k].status

\* vm_info: <<>> stands for None, <<entry>> for the record.
vm_info(proc) ==
    IF proc.returncode # 0 THEN <<>>
    ELSE LET k == FirstMatch(proc.lines, 1)
         IN  IF k = 0 THEN <<>> ELSE <<proc.lines[k]>>

(***************************************************************************)
(* lima_manager.py: get_ssh_details.  The output of `limactl show-ssh      *)
(* --format=config` is a sequence of lines "<field> <value>"; a value is a  *)
(* non-empty sequence of characters, so that the pattern of                *)
(* _parse_ssh_field, whose \s+ may run over a line end, matches within one *)
(* line.                                                                   *)
(***************************************************************************)
Digits == {"0", "1", "2", "3", "4", "5", "6", "7", "8", "9"}

DigitVal(c) ==
    CASE c = "0" -> 0 [] c = "1" -> 1 [] c = "2" -> 2 [] c = "3" -> 3 [] c = "4" -> 4
      [] c = "5" -> 5 [] c = "6" -> 6 [] c = "7" -> 7 [] c = "8" -> 8 [] c = "9" -> 9

SshLine(field, value) == [field |-> field, value |-> value]

RECURSIVE LStrip(_, _)
LStrip(v, c) == IF v # <<>> /\ Head(v) = c THEN LStrip(Tail(v), c) ELSE v

RECURSIVE RStrip(_, _)
RStrip(v, c) ==
    IF v # <<>> /\ v[Len(v)] = c THEN RStrip(SubSeq(v, 1, Len(v) - 1), c) ELSE v

\* str.strip(c) for one character c (" " stands for any white space).
Strip(v, c) == RStrip(LStrip(v, c), c)

RECURSIVE FirstField(_, _, _)
\* Index of the first line that `^\s*<field>\s+(.+)$` matches: the line holds
\* the field and at least one character after it.  0 if none.
FirstField(config, field_name, k) ==
    IF k > Len(config) THEN 0
    ELSE IF config[k].field = field_name THEN k
    ELSE FirstField(config, field_name, k + 1)

RECURSIVE LastField(_, _, _)
\* Index of the last line of config[1..k] that holds the field.  0 if none.
LastField(config, field_name, k) ==
    IF k = 0 THEN 0
    ELSE IF config[k].field = field_name THEN k
    ELSE LastField(config, field_name, k - 1)

\* Mutant: the last matching line wins.
_parse_ssh_field_last(config, field_name) ==
    LET k == LastField(config, field_name, Len(config))
    IN  IF k = 0 THEN <<>> ELSE <<Strip(config[k].value, " ")>>

\* None is the empty sequence wrapped: <<>> is no match, <<v>> is the value v.
_parse_ssh_field(config, field_name) ==
    LET k == FirstField(config, field_name, 1)
    IN  IF k = 0 THEN <<>> ELSE <<Strip(config[k].value, " ")>>

\* `x or default` for an optional string: None and "" are falsy.
OrDefault(opt, default) == IF opt = <<>> \/ opt[1] = <<>> THEN default ELSE opt[1]

RECURSIVE IntOf(_, _)
IntOf(v, acc) == IF v = <<>> THEN acc ELSE IntOf(Tail(v), 10 * acc + DigitVal(Head(v)))

\* int(port_str) raises ValueError unless the string is a literal integer.
IsIntLiteral(v) == v # <<>> /\ \A k \in 1..Len(v) : v[k] \in Digits

get_ssh_details(proc) ==
    IF proc.returncode # 0
    THEN [raised |-> "LimaError"]
    ELSE LET host     == OrDefault(_parse_ssh_field(proc.config, "Hostname"),
                                   <<"1", "2", "7", ".", "0", ".", "0", ".", "1">>)
             port_str == OrDefault(_parse_ssh_field(proc.config, "Port"), <<"2", "2">>)
             user     == OrDefault(_parse_ssh_field(proc.config, "User"), <<"l", "o", "g", "i", "n">>)
             key0     == _parse_ssh_field(proc.config, "IdentityFile")
             key      == IF key0 = <<>> \/ key0[1] = <<>> THEN key0
                         ELSE <<Strip(key0[1], "\"")>>
         IN  IF key = <<>> \/ key[1] = <<>>
             THEN [raised |-> "LimaError"]
             ELSE IF ~IsIntLiteral(port_str)
             THEN [raised |-> "ValueError"]
             ELSE [raised |-> "none",
                   ssh |-> [host |-> host, port |-> IntOf(port_str, 0),
                            user |-> user, key_path |-> key[1]]]

\* Outputs of show-ssh that the environment may produce.
GoodSshConfig ==
    <<SshLine("Hostname", <<"h">>), SshLine("Port", <<"6", "0">>),
      SshLine("User", <<"u">>), SshLine("IdentityFile", <<"\"", "k", "\"">>)>>

SshConfigs ==
    { GoodSshConfig,
      <<SshLine("IdentityFile", <<"k">>), SshLine("IdentityFile", <<"j">>)>>,
      <<SshLine("Hostname", <<"h">>), SshLine("Port", <<"6", "0">>)>>,
      <<SshLine("IdentityFile", <<"\"", "\"">>)>>,
      <<SshLine("Port", <<"6", "x">>), SshLine("IdentityFile", <<"k">>)>> }

ShowSshResults ==
    {[returncode |-> 1, config |-> <<>>]}
    \cup {[returncode |-> 0, config |-> c] : c \in SshConfigs}

NoSSH == [host |-> <<>>, port |-> 0, user |-> <<>>, key_path |-> <<>>]

(***************************************************************************)
(* The state.                                                              *)
(***************************************************************************)
VARIABLES
    profile,    \* the SandboxProfile the entry point loaded
    host,       \* the host: the VM as Lima holds it, the generated config
                \* document, and the file system (HostFs)
    cli,        \* the entry point that runs and its position
    run,        \* the locals and the position of orchestrate_up
    twin        \* a second call of orchestrate_up, on a host of its own, for
                \* the comparison of two runs (PairSpec): [host, run]

vars == <<profile, host, cli, run, twin>>

(***************************************************************************)
(* The VM manager (limactl) as the environment: which exit codes a command *)
(* may have in a state of the host, and what a command does to the host.   *)
(***************************************************************************)
\* limactl exits with 0, or with 1 after an error.
LimaCodes == {0, 1}

\* `limactl create` fails when the instance exists or the config file does not.
CreateCodes(w) ==
    IF w.vm = "absent" /\ w.generated_yaml # "none" THEN LimaCodes ELSE LimaCodes \ {0}

LimaCreate(w, returncode) ==
    IF returncode = 0 THEN [w EXCEPT !.vm = "Stopped"] ELSE w

StartCodes(w) == IF w.vm = "absent" THEN LimaCodes \ {0} ELSE LimaCodes

LimaStart(w, returncode) ==
    IF returncode = 0 THEN [w EXCEPT !.vm = "Running"] ELSE w

StopCodes(w) == IF w.vm = "absent" THEN LimaCodes \ {0} ELSE LimaCodes

LimaStop(w, returncode) ==
    IF returncode = 0 /\ w.vm = "Running" THEN [w EXCEPT !.vm = "Stopped"] ELSE w

DeleteCodes(w) == LimaCodes

LimaDelete(w, returncode) ==
    IF returncode = 0 THEN [w EXCEPT !.vm = "absent"] ELSE w

\* `limactl shell ... test -d` needs a running VM.
ShellCodes(w) == IF w.vm = "Running" THEN LimaCodes ELSE LimaCodes \ {0}

ShowSsh(w) ==
    IF w.vm = "absent" THEN {[returncode |-> 1, config |-> <<>>]} ELSE ShowSshResults

(***************************************************************************)
(* lima_manager.py: lifecycle operations.  Each returns the host after the *)
(* command and the exception it raises ("none" when it returns).           *)
(***************************************************************************)
\* Mutant: create does not raise when limactl fails.
create_never_raises(w, returncode) ==
    [host |-> LimaCreate(w, returncode), raised |-> "none"]

create(w, returncode) ==
    [host |-> LimaCreate(w, returncode),
     raised |-> IF returncode # 0 THEN "LimaError" ELSE "none"]

start(w, returncode) ==
    [host |-> LimaStart(w, returncode),
     raised |-> IF returncode # 0 THEN "LimaError" ELSE "none"]

\* A limactl command as subprocess.run received it, with its exit code.
Command(argv, returncode) == [argv |-> argv, returncode |-> returncode]

\* The argv of stop and of delete: --force is appended when force is set.
LimaArgv(verb, force) ==
    <<"limactl", verb>> \o (IF force THEN <<"--force">> ELSE <<>>) \o <<VM_NAME>>

\* stop: one command; its exit code is not looked at.  cmds is the history of
\* the commands the call issued.
stop(w, force, returncode) ==
    [host   |-> LimaStop(w, returncode),
     raised |-> "none",
     cmds   |-> <<Command(LimaArgv("stop", force), returncode)>>]

\* Mutant: delete gives up when the forced stop fails.
delete_unless_stop_fails(w, force, stop_rc, delete_rc) ==
    IF stop_rc # 0
    THEN [host   |-> LimaStop(w, stop_rc),
          raised |-> "none",
          cmds   |-> <<Command(LimaArgv("stop", TRUE), stop_rc)>>]
    ELSE [host   |-> LimaDelete(LimaStop(w, stop_rc), delete_rc),
          raised |-> "none",
          cmds   |-> <<Command(LimaArgv("stop", TRUE), stop_rc),
                       Command(LimaArgv("delete", force), delete_rc)>>]

\* delete: a forced stop, whose outcome is ignored, then the delete proper.
delete(w, force, stop_rc, delete_rc) ==
    [host   |-> LimaDelete(LimaStop(w, stop_rc), delete_rc),
     raised |-> "none",
     cmds   |-> <<Command(LimaArgv("stop", TRUE), stop_rc),
                  Command(LimaArgv("delete", force), delete_rc)>>]

verify_mount(returncode) == returncode = 0

(***************************************************************************)
(* deps.py                                                                 *)
(***************************************************************************)
\* Mutant: the presence of brew is not checked.
check_brew_unchecked(brew_on_path) == "none"

check_brew(brew_on_path) == IF ~brew_on_path THEN "DependencyError" ELSE "none"

install_brew_deps(brewfile_is_file, returncode) ==
    IF ~brewfile_is_file THEN 1 ELSE returncode

\* ansible-galaxy exits with 0, or with 1 after an error; its exit code is only
\* compared with 0.
GalaxyCodes == {0, 1}

install_ansible_collections(requirements_is_file, returncode) ==
    IF ~requirements_is_file THEN 0 ELSE returncode

(***************************************************************************)
(* ansible_runner.py                                                       *)
(***************************************************************************)
\* lima_config.py secrets_filename: the basename of the secrets path, "" when
\* the profile has none.
secrets_filename(p) == IF p.secrets THEN "secrets.env" ELSE ""

\* str(b).lower() for a bool b.
LowerStr(b) == IF b THEN "true" ELSE "false"

\* The argv elements of one pair: "-e" and f"{key}={value}".
ExtraVar(key, value) == <<"-e", <<key, "=", value>> >>

RECURSIVE UserVars(_)
UserVars(items) ==
    IF items = <<>> THEN <<>>
    ELSE ExtraVar(Head(items).key, Head(items).value) \o UserVars(Tail(items))

\* Mutant: the user's variables are emitted before the built-in ones.
build_extra_vars_user_first(p) ==
    UserVars(p.extra_vars)
    \o ExtraVar("tenant_name", "user")
    \o ExtraVar("provision_path", "/mnt/provision")
    \o ExtraVar("openclaw_path", "/mnt/openclaw")
    \o ExtraVar("obsidian_path", "/mnt/obsidian")
    \o ExtraVar("secrets_filename", secrets_filename(p))
    \o ExtraVar("overlay_yolo_mode", LowerStr(p.yolo))
    \o ExtraVar("overlay_yolo_unsafe", LowerStr(p.yolo_unsafe))
    \o ExtraVar("docker_enabled", LowerStr(~p.no_docker))
    \o ExtraVar("agent_data_mount", IF p.agent_data THEN "/mnt/openclaw-agents" ELSE "")
    \o ExtraVar("buildlog_data_mount", IF p.buildlog_data THEN "/mnt/buildlog-data" ELSE "")
    \o ExtraVar("memgraph_enabled", LowerStr(p.memgraph))

\* getpass.getuser() is "user".
build_extra_vars(p) ==
    LET sec_fname      == secrets_filename(p)
        tenant         == "user"
        agent_mount    == IF p.agent_data THEN "/mnt/openclaw-agents" ELSE ""
        buildlog_mount == IF p.buildlog_data THEN "/mnt/buildlog-data" ELSE ""
    IN  ExtraVar("tenant_name", tenant)
        \o ExtraVar("provision_path", "/mnt/provision")
        \o ExtraVar("openclaw_path", "/mnt/openclaw")
        \o ExtraVar("obsidian_path", "/mnt/obsidian")
        \o ExtraVar("secrets_filename", sec_fname)
        \o ExtraVar("overlay_yolo_mode", LowerStr(p.yolo))
        \o ExtraVar("overlay_yolo_unsafe", LowerStr(p.yolo_unsafe))
        \o ExtraVar("docker_enabled", LowerStr(~p.no_docker))
        \o ExtraVar("agent_data_mount", agent_mount)
        \o ExtraVar("buildlog_data_mount", buildlog_mount)
        \o ExtraVar("memgraph_enabled", LowerStr(p.memgraph))
        \o UserVars(p.extra_vars)

\* tempfile.mkstemp: a new file of the host, under a name no file has.
mkstemp(w) ==
    LET path == CHOOSE n \in 1..(Cardinality(w.tmp) + 1) : n \notin w.tmp
    IN  [host |-> [w EXCEPT !.tmp = @ \cup {path}], path |-> path]

\* Path(inv_path).unlink(missing_ok=True)
unlink(w, path) == [w EXCEPT !.tmp = @ \ {path}]

\* The outcomes of the ansible-playbook call: launched is FALSE when
\* subprocess.run raises because the engine cannot be run.
PlaybookResults ==
    {[launched |-> FALSE, returncode |-> 0]}
    \cup {[launched |-> TRUE, returncode |-> c] : c \in ExitCodes}

\* Mutant: a failure of the engine is reported as 1.
run_playbook_coerced(w, inv_path, proc) ==
    [host   |-> unlink(w, inv_path),
     raised |-> IF proc.launched THEN "none" ELSE "FileNotFoundError",
     rc     |-> IF proc.returncode # 0 THEN 1 ELSE 0]

\* Mutant: the inventory is removed after the engine returned, not in a
\* finally clause.
run_playbook_no_finally(w, inv_path, proc) ==
    [host   |-> IF proc.launched THEN unlink(w, inv_path) ELSE w,
     raised |-> IF proc.launched THEN "none" ELSE "FileNotFoundError",
     rc     |-> proc.returncode]

\* run_playbook from the call of subprocess.run on: the engine's exit code is
\* returned, or the exception of subprocess.run passed on, and the finally
\* clause removes the inventory that mkstemp created at inv_path.
run_playbook(w, inv_path, proc) ==
    [host   |-> unlink(w, inv_path),
     raised |-> IF proc.launched THEN "none" ELSE "FileNotFoundError",
     rc     |-> proc.returncode]

(***************************************************************************)
(* orchestrator.py: orchestrate_up, one operator per step.  A step takes   *)
(* the profile p, the host w, the locals r and the outcome of the external *)
(* call it makes, and yields the host and the locals after it.             *)
(***************************************************************************)
\* The locals of orchestrate_up before its first statement.
Run0 ==
    [pc          |-> "check_brew",
     status      |-> "running",     \* "running", "returned" or "raised"
     rc          |-> 0,             \* the return value, once status = "returned"
     exc         |-> "none",        \* the exception, once status = "raised"
     trace       |-> <<>>,          \* history: the steps taken, in order
     host0       |-> [vm |-> "absent"], \* history: the host when the call began
     exists      |-> FALSE,         \* vm_exists() of gate 2
     config_path |-> "unset",
     wrote       |-> FALSE,         \* write_config ran in this call
     written     |-> <<>>,          \* history: the mounts write_config rendered
     created     |-> FALSE,
     vm_at_entry |-> "unset",       \* history: the VM when ensure_running began
     status_read |-> "unset",       \* history: vm_status() in ensure_running
     mounts      |-> <<>>,          \* ctx.mounts of gate 4
     i           |-> 0,             \* mounts verified so far
     failed      |-> FALSE,
     ssh         |-> NoSSH,
     inv_path    |-> 0,             \* run_playbook: the inventory file, 0 before mkstemp
     sync_ssh    |-> NoSSH,         \* history: the ssh argument of _sync_vault
     warnings    |-> {}]

NotStarted == [Run0 EXCEPT !.pc = "idle"]

\* The call orchestrate_up(profile, bootstrap_dir, lima=lima) on host w.
Begin(w) == [Run0 EXCEPT !.host0 = w]

\* A step of the history: its name, whether it succeeded (for a gate: whether
\* the gate let the run pass), and the exit code of its external command (of
\* the callee, when that did not launch the command).
Log(r, step, success, code) ==
    [r EXCEPT !.trace = Append(@, [step |-> step, ok |-> success, code |-> code])]

Return(r, code) == [r EXCEPT !.pc = "end", !.status = "returned", !.rc = code]

Raise(r, e) == [r EXCEPT !.pc = "end", !.status = "raised", !.exc = e]

Goto(r, pc) == [r EXCEPT !.pc = pc]

Warn(r, what) == [r EXCEPT !.warnings = @ \cup {what}]

\* 1. dependency checks
step_check_brew(w, r, brew_on_path) ==
    LET r1 == Log(r, "check_brew", brew_on_path, 0)
    IN  [host |-> w,
         run  |-> IF check_brew(brew_on_path) = "DependencyError"
                  THEN Return(r1, 1)
                  ELSE Goto(r1, "brew_bundle")]

\* Mutant: a failed brew bundle does not end the run.
step_brew_bundle_continues(w, r, brewfile_is_file, returncode) ==
    LET rc == install_brew_deps(brewfile_is_file, returncode)
    IN  [host |-> w, run |-> Goto(Log(r, "brew_bundle", rc = 0, rc), "galaxy")]

step_brew_bundle(w, r, brewfile_is_file, returncode) ==
    LET rc == install_brew_deps(brewfile_is_file, returncode)
        r1 == Log(r, "brew_bundle", rc = 0, rc)
    IN  [host |-> w,
         run  |-> IF rc # 0 THEN Return(r1, rc) ELSE Goto(r1, "galaxy")]

step_galaxy(w, r, requirements_is_file, returncode) ==
    LET rc == install_ansible_collections(requirements_is_file, returncode)
        r1 == Log(r, "galaxy", rc = 0, rc)
    IN  [host |-> w,
         run  |-> Goto(IF rc # 0 THEN Warn(r1, "galaxy") ELSE r1, "vm_exists")]

\* 2. Lima config generation
\* Mutant: the config gate does not require the openclaw mount.
step_vm_exists_no_mount_check(p, w, r, proc) ==
    LET exists == vm_exists(proc)
        r1 == [Log(r, "vm_exists", exists \/ p.openclaw, proc.returncode)
                  EXCEPT !.exists = exists]
    IN  [host |-> w,
         run  |-> IF ~r1.exists
                  THEN Goto(r1, "write_config")
                  ELSE Goto([r1 EXCEPT !.config_path = GeneratedYaml], "ensure_running")]

step_vm_exists(p, w, r, proc) ==
    LET exists == vm_exists(proc)
        r1 == [Log(r, "vm_exists", exists \/ p.openclaw, proc.returncode)
                  EXCEPT !.exists = exists]
    IN  [host |-> w,
         run  |-> IF ~r1.exists
                  THEN IF ~p.openclaw THEN Return(r1, 1) ELSE Goto(r1, "write_config")
                  ELSE Goto([r1 EXCEPT !.config_path = GeneratedYaml], "ensure_running")]

\* write_config (build_context, render, write) and _print_mounts (build_context).
step_write_config(p, w, r) ==
    [host |-> [w EXCEPT !.generated_yaml = "new",
                        !.fs = build_context(p, build_context(p, w.fs).fs).fs],
     run  |-> Goto([Log(r, "write_config", TRUE, 0) EXCEPT
                        !.config_path = GeneratedYaml,
                        !.wrote = TRUE,
                        !.written = build_context(p, w.fs).ctx.mounts],
                   "ensure_running")]

\* 3. ensure VM is running: LimaManager.ensure_running, statement by statement.
step_ensure_running(w, r, proc) ==
    [host |-> w,
     run  |-> Goto([Log(r, "ensure_running", TRUE, proc.returncode)
                       EXCEPT !.vm_at_entry = w.vm],
                   IF ~vm_exists(proc) THEN "create" ELSE "vm_status")]

step_create(w, r, returncode) ==
    LET res == create(w, returncode)
        r1  == Log(r, "create", returncode = 0, returncode)
    IN  [host |-> res.host,
         run  |-> IF res.raised = "LimaError"
                  THEN Return(r1, 1)
                  ELSE Goto([r1 EXCEPT !.created = TRUE], "vm_status")]

step_vm_status(w, r, proc) ==
    [host |-> w,
     run  |-> Goto([r EXCEPT !.status_read = vm_status(proc)],
                   IF vm_status(proc) # "Running" THEN "start" ELSE "build_context")]

step_start(w, r, returncode) ==
    LET res == start(w, returncode)
        r1  == Log(r, "start", returncode = 0, returncode)
    IN  [host |-> res.host,
         run  |-> IF res.raised = "LimaError"
                  THEN Return(r1, 1)
                  ELSE Goto(r1, "build_context")]

\* 4. verify mounts
step_build_context(p, w, r) ==
    LET res == build_context(p, w.fs)
    IN  [host |-> [w EXCEPT !.fs = res.fs],
         run  |-> Goto([r EXCEPT !.mounts = res.ctx.mounts, !.i = 0, !.failed = FALSE],
                       "verify_mount")]

\* Mutant: the result of the verification is dropped.
step_verify_mount_ignores(w, r, returncode) ==
    LET r1 == [Log(r, "verify_mount", returncode = 0, returncode) EXCEPT !.i = @ + 1]
    IN  [host |-> w,
         run  |-> IF r1.i < Len(r1.mounts) THEN r1 ELSE Goto(r1, "get_ssh_details")]

\* Mutant: the loop returns at the first mount that is not accessible.
step_verify_mount_short_circuit(w, r, returncode) ==
    LET r1 == [Log(r, "verify_mount", returncode = 0, returncode) EXCEPT
                  !.i = @ + 1,
                  !.failed = @ \/ ~verify_mount(returncode)]
    IN  [host |-> w,
         run  |-> IF r1.failed THEN Return(r1, 1)
                  ELSE IF r1.i < Len(r1.mounts) THEN r1
                  ELSE Goto(r1, "get_ssh_details")]

\* One iteration of the loop; after the last one, the test of `failed`.
step_verify_mount(w, r, returncode) ==
    LET r1 == [Log(r, "verify_mount", returncode = 0, returncode) EXCEPT
                  !.i = @ + 1,
                  !.failed = @ \/ ~verify_mount(returncode)]
    IN  [host |-> w,
         run  |-> IF r1.i < Len(r1.mounts) THEN r1
                  ELSE IF r1.failed THEN Return(r1, 1)
                  ELSE Goto(r1, "get_ssh_details")]

\* 5. ansible
step_get_ssh_details(w, r, proc) ==
    LET res == get_ssh_details(proc)
        r1  == Log(r, "get_ssh_details", res.raised = "none", proc.returncode)
    IN  [host |-> w,
         run  |-> IF res.raised = "LimaError" THEN Return(r1, 1)
                  ELSE IF res.raised # "none" THEN Raise(r1, res.raised)
                  ELSE Goto([r1 EXCEPT !.ssh = res.ssh], "run_playbook")]

\* Mutant: the vault is synced in unrestricted-host-write mode too.
step_run_playbook_syncs_unsafe(p, w, r, proc) ==
    LET res == run_playbook(w, r.inv_path, proc)
        r1  == Log(r, "run_playbook", res.raised = "none" /\ res.rc = 0, proc.returncode)
    IN  [host |-> res.host,
         run  |-> IF res.raised # "none" THEN Raise(r1, res.raised)
                  ELSE IF res.rc # 0 THEN Return(r1, res.rc)
                  ELSE IF p.vault THEN Goto(r1, "sync_vault")
                  ELSE Goto(r1, "report")]

\* run_playbook up to the call of the engine: the inventory is written to a
\* temporary file.
step_mkstemp(w, r) ==
    LET res == mkstemp(w)
    IN  [host |-> res.host,
         run  |-> Goto([r EXCEPT !.inv_path = res.path], "ansible_playbook")]

\* The engine has ended: the rest of run_playbook, then the test of rc.
step_run_playbook(p, w, r, proc) ==
    LET res == run_playbook(w, r.inv_path, proc)
        r1  == Log(r, "run_playbook", res.raised = "none" /\ res.rc = 0, proc.returncode)
    IN  [host |-> res.host,
         run  |-> IF res.raised # "none" THEN Raise(r1, res.raised)
                  ELSE IF res.rc # 0 THEN Return(r1, res.rc)
                  ELSE IF p.vault /\ ~p.yolo_unsafe THEN Goto(r1, "sync_vault")
                  ELSE Goto(r1, "report")]

\* 6. vault sync.  proc is the rsync call: launched is FALSE when the tool
\* cannot be run (subprocess.run raises FileNotFoundError).
_sync_vault(w, proc) ==
    IF ~w.fs.vault_is_dir THEN [raised |-> "none", warning |-> "vault_missing"]
    ELSE IF ~proc.launched THEN [raised |-> "FileNotFoundError", warning |-> "none"]
    ELSE IF proc.returncode = 0 THEN [raised |-> "none", warning |-> "none"]
    ELSE [raised |-> "none", warning |-> "sync_failed"]

step_sync_vault(w, r, proc) ==
    LET res == _sync_vault(w, proc)
        r1  == Log(r, "sync_vault", res.raised = "none" /\ res.warning = "none",
                   proc.returncode)
        r2  == [r1 EXCEPT !.sync_ssh = r.ssh]
    IN  [host |-> w,
         run  |-> IF res.raised # "none" THEN Raise(r2, res.raised)
                  ELSE Goto(IF res.warning # "none" THEN Warn(r2, res.warning) ELSE r2,
                            "report")]

\* 7. report
step_report(w, r) ==
    [host |-> w, run |-> Return(Log(r, "report", TRUE, 0), 0)]

\* The outcomes of an rsync call.
RsyncResults ==
    {[launched |-> FALSE, returncode |-> 0]}
    \cup {[launched |-> TRUE, returncode |-> c] : c \in ExitCodes}

(***************************************************************************)
(* app.py and mcp_server.py: the entry points.                             *)
(***************************************************************************)
\* valid is history: whether validate_profile reports no error for the profile
\* as the entry point loaded it.
\* fresh is the --fresh flag of `up`; cmds is history: the limactl commands the
\* entry point issued through stop() or delete().
\* calls is history too: the LimaManager methods a caller invoked directly.
\* raised is the exception that left the entry point; entry_vm is history: the
\* VM as Lima held it when `up` or an agent-facing operation was called.
Idle == [cmd |-> "none", pc |-> "idle", exit_code |-> 0, message |-> "none",
         valid |-> TRUE, fresh |-> FALSE, cmds |-> <<>>, calls |-> <<>>,
         raised |-> "none", entry_vm |-> "none"]

Valid(p, fs) == ok(validate_profile(p, fs))

\* _load_and_validate: TRUE when it raises typer.Exit(1).
_load_and_validate(p, fs, strict) ==
    LET result == validate_profile(p, fs)
    IN  ~ok(result) /\ strict

\* `sandbox up [--fresh] [--memgraph]`, up to the call of lima.delete or of
\* orchestrate_up.
up(fresh, memgraph) ==
    /\ cli.pc = "idle"
    /\ IF _load_and_validate(profile, host.fs, TRUE)
       THEN /\ cli' = [Idle EXCEPT !.cmd = "up", !.pc = "exit", !.exit_code = 1,
                                   !.valid = Valid(profile, host.fs)]
            /\ UNCHANGED <<profile, host, run, twin>>
       ELSE /\ profile' = IF memgraph THEN [profile EXCEPT !.memgraph = TRUE] ELSE profile
            /\ cli' = [Idle EXCEPT !.cmd = "up",
                                   !.pc = IF fresh THEN "delete" ELSE "orchestrate",
                                   !.fresh = fresh,
                                   !.entry_vm = host.vm,
                                   !.valid = Valid(profile, host.fs)]
            /\ run' = IF fresh THEN run ELSE Begin(host)
            /\ UNCHANGED <<host, twin>>

\* `up --fresh`: lima.delete(), then the call of orchestrate_up.
up_delete(stop_rc, delete_rc) ==
    /\ cli.cmd = "up" /\ cli.pc = "delete"
    /\ host' = delete(host, TRUE, stop_rc, delete_rc).host
    /\ cli' = [cli EXCEPT !.pc = "orchestrate",
                          !.cmds = delete(host, TRUE, stop_rc, delete_rc).cmds]
    /\ run' = Begin(host')
    /\ UNCHANGED <<profile, twin>>

\* `up`: raise typer.Exit(rc); an exception that escapes orchestrate_up ends
\* the process with exit code 1.
up_exit ==
    /\ cli.cmd = "up" /\ cli.pc = "orchestrate" /\ run.pc = "end"
    /\ cli' = [cli EXCEPT !.pc = "exit",
                          !.exit_code = IF run.status = "returned" THEN run.rc ELSE 1]
    /\ UNCHANGED <<profile, host, run, twin>>

\* MCP sandbox_up, up to the call of orchestrate_up.
sandbox_up ==
    /\ cli.pc = "idle"
    /\ cli' = [Idle EXCEPT !.cmd = "sandbox_up", !.pc = "orchestrate",
                           !.valid = Valid(profile, host.fs)]
    /\ run' = Begin(host)
    /\ UNCHANGED <<profile, host, twin>>

\* MCP sandbox_up: the result {"exit_code": rc}, or the exception passed on.
sandbox_up_return ==
    /\ cli.cmd = "sandbox_up" /\ cli.pc = "orchestrate" /\ run.pc = "end"
    /\ cli' = [cli EXCEPT !.pc = "exit",
                          !.exit_code = IF run.status = "returned" THEN run.rc ELSE 1,
                          !.message = IF run.status = "returned" THEN "result" ELSE "exception"]
    /\ UNCHANGED <<profile, host, run, twin>>

\* `sandbox down`
down(stop_rc) ==
    /\ cli.pc = "idle"
    /\ ~_load_and_validate(profile, host.fs, FALSE)
    /\ host' = stop(host, TRUE, stop_rc).host
    /\ cli' = [Idle EXCEPT !.cmd = "down", !.pc = "exit", !.message = "VM stopped.",
                           !.cmds = stop(host, TRUE, stop_rc).cmds,
                           !.valid = Valid(profile, host.fs)]
    /\ UNCHANGED <<profile, run, twin>>

\* `sandbox destroy`, confirmed or forced.
destroy(stop_rc, delete_rc) ==
    /\ cli.pc = "idle"
    /\ ~_load_and_validate(profile, host.fs, FALSE)
    /\ host' = delete(host, TRUE, stop_rc, delete_rc).host
    /\ cli' = [Idle EXCEPT !.cmd = "destroy", !.pc = "exit", !.message = "VM deleted.",
                           !.cmds = delete(host, TRUE, stop_rc, delete_rc).cmds,
                           !.valid = Valid(profile, host.fs)]
    /\ UNCHANGED <<profile, run, twin>>

(***************************************************************************)
(* mcp_server.py: the agent-facing operations on the VM.  message is the   *)
(* "status" of the result, "error" for a result with an "error" key, and   *)
(* "result" for the data of a successful exec or ssh_info.                 *)
(***************************************************************************)
\* An operation that is called on host w and ends at once.
Mcp(cmd, w) == [Idle EXCEPT !.cmd = cmd, !.pc = "exit", !.entry_vm = w.vm]

\* _require_limactl
_require_limactl(limactl_on_path) == IF ~limactl_on_path THEN "RuntimeError" ELSE "none"

\* `limactl shell VM -- bash -c command` under a timeout: the command's exit
\* code, or TimeoutExpired.
ExecOutcomes(w) ==
    {[timed_out |-> TRUE, returncode |-> 1]}
    \cup {[timed_out |-> FALSE, returncode |-> c] :
              c \in IF w.vm = "Running" THEN ExitCodes ELSE {1}}

\* Mutant: sandbox_destroy deletes without asking whether the VM exists.
sandbox_destroy_unchecked(limactl_on_path, proc, stop_rc, delete_rc) ==
    /\ cli.pc = "idle"
    /\ host' = delete(host, TRUE, stop_rc, delete_rc).host
    /\ cli' = [Mcp("sandbox_destroy", host) EXCEPT
                  !.message = "deleted",
                  !.cmds = delete(host, TRUE, stop_rc, delete_rc).cmds]
    /\ UNCHANGED <<profile, run, twin>>

sandbox_down(limactl_on_path, proc, stop_rc) ==
    /\ cli.pc = "idle"
    /\ IF _require_limactl(limactl_on_path) # "none"
       THEN /\ cli' = [Mcp("sandbox_down", host) EXCEPT !.raised = "RuntimeError"]
            /\ host' = host
       ELSE IF ~vm_exists(proc)
       THEN /\ cli' = [Mcp("sandbox_down", host) EXCEPT !.message = "not_found"]
            /\ host' = host
       ELSE /\ host' = stop(host, TRUE, stop_rc).host
            /\ cli' = [Mcp("sandbox_down", host) EXCEPT
                          !.message = "stopped",
                          !.cmds = stop(host, TRUE, stop_rc).cmds]
    /\ UNCHANGED <<profile, run, twin>>

sandbox_destroy(limactl_on_path, proc, stop_rc, delete_rc) ==
    /\ cli.pc = "idle"
    /\ IF _require_limactl(limactl_on_path) # "none"
       THEN /\ cli' = [Mcp("sandbox_destroy", host) EXCEPT !.raised = "RuntimeError"]
            /\ host' = host
       ELSE IF ~vm_exists(proc)
       THEN /\ cli' = [Mcp("sandbox_destroy", host) EXCEPT !.message = "not_found"]
            /\ host' = host
       ELSE /\ host' = delete(host, TRUE, stop_rc, delete_rc).host
            /\ cli' = [Mcp("sandbox_destroy", host) EXCEPT
                          !.message = "deleted",
                          !.cmds = delete(host, TRUE, stop_rc, delete_rc).cmds]
    /\ UNCHANGED <<profile, run, twin>>

\* sandbox_exec(command): exists_proc and status_proc are the outputs of the
\* list queries of vm_exists and of vm_status.
sandbox_exec(command_blank, limactl_on_path, exists_proc, status_proc, proc) ==
    /\ cli.pc = "idle"
    /\ cli' =
         IF command_blank
         THEN [Mcp("sandbox_exec", host) EXCEPT !.message = "error"]
         ELSE IF _require_limactl(limactl_on_path) # "none"
         THEN [Mcp("sandbox_exec", host) EXCEPT !.raised = "RuntimeError"]
         ELSE IF ~vm_exists(exists_proc)
         THEN [Mcp("sandbox_exec", host) EXCEPT !.message = "error"]
         ELSE IF vm_status(status_proc) # "Running"
         THEN [Mcp("sandbox_exec", host) EXCEPT !.message = "error"]
         ELSE [Mcp("sandbox_exec", host) EXCEPT
                  !.message = IF proc.timed_out THEN "error" ELSE "result",
                  !.exit_code = IF proc.timed_out THEN -1 ELSE proc.returncode,
                  !.cmds = <<Command(<<"limactl", "shell", VM_NAME, "--", "bash", "-c">>,
                                     proc.returncode)>>]
    /\ UNCHANGED <<profile, host, run, twin>>

sandbox_ssh_info(limactl_on_path, exists_proc, status_proc, proc) ==
    /\ cli.pc = "idle"
    /\ cli' =
         IF _require_limactl(limactl_on_path) # "none"
         THEN [Mcp("sandbox_ssh_info", host) EXCEPT !.raised = "RuntimeError"]
         ELSE IF ~vm_exists(exists_proc)
         THEN [Mcp("sandbox_ssh_info", host) EXCEPT !.message = "error"]
         ELSE IF vm_status(status_proc) # "Running"
         THEN [Mcp("sandbox_ssh_info", host) EXCEPT !.message = "error"]
         ELSE LET res == get_ssh_details(proc)
                  cmd == Command(<<"limactl", "show-ssh", "--format=config", VM_NAME>>,
                                 proc.returncode)
              IN  IF res.raised = "LimaError"
                  THEN [Mcp("sandbox_ssh_info", host) EXCEPT
                           !.message = "error", !.cmds = <<cmd>>]
                  ELSE IF res.raised # "none"
                  THEN [Mcp("sandbox_ssh_info", host) EXCEPT
                           !.raised = res.raised, !.cmds = <<cmd>>]
                  ELSE [Mcp("sandbox_ssh_info", host) EXCEPT
                           !.message = "result", !.cmds = <<cmd>>]
    /\ UNCHANGED <<profile, host, run, twin>>

(***************************************************************************)
(* The actions of orchestrate_up: a step, with the outcome of its external *)
(* call drawn from what the environment may answer.                        *)
(***************************************************************************)
At(pc) == cli.pc = "orchestrate" /\ run.pc = pc

Take(n) == host' = n.host /\ run' = n.run /\ UNCHANGED <<profile, cli, twin>>

CheckBrew ==
    /\ At("check_brew")
    /\ \E brew_on_path \in BOOLEAN : Take(step_check_brew(host, run, brew_on_path))

BrewBundle ==
    /\ At("brew_bundle")
    /\ \E brewfile_is_file \in BOOLEAN, rc \in ExitCodes :
          Take(step_brew_bundle(host, run, brewfile_is_file, rc))

Galaxy ==
    /\ At("galaxy")
    /\ \E requirements_is_file \in BOOLEAN, rc \in GalaxyCodes :
          Take(step_galaxy(host, run, requirements_is_file, rc))

VmExists ==
    /\ At("vm_exists")
    /\ \E proc \in ListQueries(host.vm) : Take(step_vm_exists(profile, host, run, proc))

WriteConfig ==
    /\ At("write_config")
    /\ Take(step_write_config(profile, host, run))

EnsureRunning ==
    /\ At("ensure_running")
    /\ \E proc \in ListQueries(host.vm) : Take(step_ensure_running(host, run, proc))

Create ==
    /\ At("create")
    /\ \E rc \in CreateCodes(host) : Take(step_create(host, run, rc))

VmStatus ==
    /\ At("vm_status")
    /\ \E proc \in ListQueries(host.vm) : Take(step_vm_status(host, run, proc))

Start ==
    /\ At("start")
    /\ \E rc \in StartCodes(host) : Take(step_start(host, run, rc))

BuildContext ==
    /\ At("build_context")
    /\ Take(step_build_context(profile, host, run))

VerifyMount ==
    /\ At("verify_mount")
    /\ \E rc \in ShellCodes(host) : Take(step_verify_mount(host, run, rc))

GetSshDetails ==
    /\ At("get_ssh_details")
    /\ \E proc \in ShowSsh(host) : Take(step_get_ssh_details(host, run, proc))

Mkstemp ==
    /\ At("run_playbook")
    /\ Take(step_mkstemp(host, run))

RunPlaybook ==
    /\ At("ansible_playbook")
    /\ \E proc \in PlaybookResults : Take(step_run_playbook(profile, host, run, proc))

SyncVault ==
    /\ At("sync_vault")
    /\ \E proc \in RsyncResults : Take(step_sync_vault(host, run, proc))

Report ==
    /\ At("report")
    /\ Take(step_report(host, run))

(***************************************************************************)
(* The specification: one invocation of one entry point.                   *)
(***************************************************************************)
\* The profiles of the runs.  Four mounts that only add an entry to the mount
\* list (config, agent_data, buildlog_data, secrets) are left unset.
Profiles ==
    {p \in PlainProfiles :
        ~p.memgraph /\ p.memgraph_ports = <<>> /\ ~p.config /\ ~p.agent_data /\ ~p.buildlog_data /\ ~p.secrets}

\* The hosts of the runs: a VM that exists was created from a generated
\* document of an earlier run; every path exists except, possibly, the vault,
\* which may also be a file; the secrets file is complete.
Hosts ==
    {w \in [vm : {"absent", "Stopped", "Running"},
            generated_yaml : {"none", "old"},
            fs : HostFs,
            tmp : {{}}] :
        /\ w.vm # "absent" => w.generated_yaml = "old"
        /\ w.fs.exists \in {MountFields, MountFields \ {"vault"}}
        /\ w.fs.secrets_readable /\ w.fs.required_keys /\ w.fs.optional_keys}

\* The state of the vault path matters only to a profile that names a vault.
Starts ==
    {s \in [profile : Profiles, host : Hosts] :
        ~s.profile.vault => s.host.fs.vault_is_dir}

NoTwin == [host |-> [vm |-> "absent"], run |-> NotStarted]

Init ==
    /\ \E s \in Starts : profile = s.profile /\ host = s.host
    /\ cli = Idle
    /\ run = NotStarted
    /\ twin = NoTwin

Next ==
    \/ \E fresh \in BOOLEAN, memgraph \in BOOLEAN : up(fresh, memgraph)
    \/ \E stop_rc \in StopCodes(host), delete_rc \in DeleteCodes(host) :
          up_delete(stop_rc, delete_rc)
    \/ up_exit
    \/ sandbox_up
    \/ sandbox_up_return
    \/ \E stop_rc \in StopCodes(host) : down(stop_rc)
    \/ \E stop_rc \in StopCodes(host), delete_rc \in DeleteCodes(host) :
          destroy(stop_rc, delete_rc)
    \/ CheckBrew
    \/ BrewBundle
    \/ Galaxy
    \/ VmExists
    \/ WriteConfig
    \/ EnsureRunning
    \/ Create
    \/ VmStatus
    \/ Start
    \/ BuildContext
    \/ VerifyMount
    \/ GetSshDetails
    \/ Mkstemp
    \/ RunPlaybook
    \/ SyncVault
    \/ Report

Spec == Init /\ [][Next]_vars

(***************************************************************************)
(* Two calls of orchestrate_up side by side, with the same profile, on     *)
(* hosts that are alike except for the vault path.  `profile`, `host` and  *)
(* `run` are the first call, `twin` is the second.                         *)
(***************************************************************************)
\* What the external call of the step at `pc` may answer on host w.
Outcomes(w, pc) ==
    CASE pc = "check_brew"      -> [brew_on_path : BOOLEAN]
      [] pc = "brew_bundle"     -> [brewfile_is_file : BOOLEAN, returncode : ExitCodes]
      [] pc = "galaxy"          -> [requirements_is_file : BOOLEAN, returncode : GalaxyCodes]
      [] pc \in {"vm_exists", "ensure_running", "vm_status"}
                                -> [proc : ListQueries(w.vm)]
      [] pc = "create"          -> [returncode : CreateCodes(w)]
      [] pc = "start"           -> [returncode : StartCodes(w)]
      [] pc = "verify_mount"    -> [returncode : ShellCodes(w)]
      [] pc = "get_ssh_details" -> [proc : ShowSsh(w)]
      [] pc = "ansible_playbook" -> [proc : PlaybookResults]
      [] pc = "sync_vault"      -> [proc : RsyncResults]
      [] OTHER                  -> {[none |-> TRUE]}

\* One step of orchestrate_up from the position r.pc, its external call
\* answering o.
orchestrate_up(p, w, r, o) ==
    CASE r.pc = "check_brew"      -> step_check_brew(w, r, o.brew_on_path)
      [] r.pc = "brew_bundle"     -> step_brew_bundle(w, r, o.brewfile_is_file, o.returncode)
      [] r.pc = "galaxy"          -> step_galaxy(w, r, o.requirements_is_file, o.returncode)
      [] r.pc = "vm_exists"       -> step_vm_exists(p, w, r, o.proc)
      [] r.pc = "write_config"    -> step_write_config(p, w, r)
      [] r.pc = "ensure_running"  -> step_ensure_running(w, r, o.proc)
      [] r.pc = "create"          -> step_create(w, r, o.returncode)
      [] r.pc = "vm_status"       -> step_vm_status(w, r, o.proc)
      [] r.pc = "start"           -> step_start(w, r, o.returncode)
      [] r.pc = "build_context"   -> step_build_context(p, w, r)
      [] r.pc = "verify_mount"    -> step_verify_mount(w, r, o.returncode)
      [] r.pc = "get_ssh_details" -> step_get_ssh_details(w, r, o.proc)
      [] r.pc = "run_playbook"    -> step_mkstemp(w, r)
      [] r.pc = "ansible_playbook" -> step_run_playbook(p, w, r, o.proc)
      [] r.pc = "sync_vault"      -> step_sync_vault(w, r, o.proc)
      [] r.pc = "report"          -> step_report(w, r)

\* The steps whose outcome may differ between the two calls.
MayDiffer == {"galaxy", "sync_vault"}

\* The two hosts differ at most in the vault path.
SameButVault(w1, w2) ==
    /\ w1.vm = w2.vm
    /\ w1.generated_yaml = w2.generated_yaml
    /\ w1.fs.exists \ {"vault"} = w2.fs.exists \ {"vault"}
    /\ w1.fs.secrets_readable = w2.fs.secrets_readable
    /\ w1.fs.required_keys = w2.fs.required_keys
    /\ w1.fs.optional_keys = w2.fs.optional_keys

PairInit ==
    /\ \E s \in Starts, w \in Hosts :
          /\ SameButVault(s.host, w)
          /\ ~s.profile.vault => w.fs = s.host.fs
          /\ profile = s.profile
          /\ host = s.host
          /\ run = Begin(s.host)
          /\ twin = [host |-> w, run |-> Begin(w)]
    /\ cli = [Idle EXCEPT !.cmd = "orchestrate_up", !.pc = "pair"]

\* Both calls take the step they are both at; its external call answers the
\* same in both unless the step is one whose outcome may differ.
PairStep ==
    /\ run.pc = twin.run.pc /\ run.pc \notin {"idle", "end"}
    /\ \E o1 \in Outcomes(host, run.pc), o2 \in Outcomes(twin.host, run.pc) :
          /\ run.pc \notin MayDiffer => o1 = o2
          /\ LET n1 == orchestrate_up(profile, host, run, o1)
                 n2 == orchestrate_up(profile, twin.host, twin.run, o2)
             IN  /\ host' = n1.host /\ run' = n1.run
                 /\ twin' = [host |-> n2.host, run |-> n2.run]
    /\ UNCHANGED <<profile, cli>>

\* The first call goes on alone once the two are at different positions.
PairFirst ==
    /\ run.pc # twin.run.pc /\ run.pc \notin {"idle", "end"}
    /\ \E o \in Outcomes(host, run.pc) :
          LET n == orchestrate_up(profile, host, run, o)
          IN  host' = n.host /\ run' = n.run
    /\ UNCHANGED <<profile, cli, twin>>

\* The second call goes on alone once the two are at different positions.
PairSecond ==
    /\ run.pc # twin.run.pc /\ twin.run.pc \notin {"idle", "end"}
    /\ \E o \in Outcomes(twin.host, twin.run.pc) :
          LET n == orchestrate_up(profile, twin.host, twin.run, o)
          IN  twin' = [host |-> n.host, run |-> n.run]
    /\ UNCHANGED <<profile, cli, host, run>>

PairNext ==
    \/ PairStep
    \/ PairFirst
    \/ PairSecond

PairSpec == PairInit /\ [][PairNext]_vars

(***************************************************************************)
(* Two calls of orchestrate_up that run concurrently on one host, for the  *)
(* same VM name: `run` and `twin.run` both act on `host`.  Nothing in the  *)
(* code serialises them, so their steps interleave freely.  Both calls     *)
(* have passed the dependency gate.                                        *)
(***************************************************************************)
\* The locals of a call on host w that has passed gate 1.
PastDependencyGate(w) ==
    [Begin(w) EXCEPT !.pc = "vm_exists",
                     !.trace = <<[step |-> "check_brew", ok |-> TRUE, code |-> 0],
                                 [step |-> "brew_bundle", ok |-> TRUE, code |-> 0],
                                 [step |-> "galaxy", ok |-> TRUE, code |-> 0]>>]

RaceInit ==
    /\ \E s \in Starts :
          /\ s.host.vm = "absent"
          /\ s.profile.openclaw /\ ~s.profile.vault /\ ~s.profile.agent_data
          /\ ~s.profile.yolo /\ ~s.profile.yolo_unsafe
          /\ profile = s.profile
          /\ host = s.host
          /\ run = PastDependencyGate(s.host)
          /\ twin = [host |-> NoTwin.host, run |-> PastDependencyGate(s.host)]
    /\ cli = [Idle EXCEPT !.cmd = "orchestrate_up", !.pc = "race"]

\* The first call takes its next step.
RaceFirst ==
    /\ run.pc \notin {"idle", "end"}
    /\ \E o \in Outcomes(host, run.pc) :
          LET n == orchestrate_up(profile, host, run, o)
          IN  host' = n.host /\ run' = n.run
    /\ UNCHANGED <<profile, cli, twin>>

\* The second call takes its next step, on the same host.
RaceSecond ==
    /\ twin.run.pc \notin {"idle", "end"}
    /\ \E o \in Outcomes(host, twin.run.pc) :
          LET n == orchestrate_up(profile, host, twin.run, o)
          IN  host' = n.host /\ twin' = [twin EXCEPT !.run = n.run]
    /\ UNCHANGED <<profile, cli, run>>

RaceNext ==
    \/ RaceFirst
    \/ RaceSecond

RaceSpec == RaceInit /\ [][RaceNext]_vars

(***************************************************************************)
(* A caller that holds a LimaManager and invokes its stop and delete       *)
(* methods directly, with either value of `force`, a bounded number of     *)
(* times.                                                                  *)
(***************************************************************************)
\* The number of calls the caller makes.
MaxCalls == 3

\* The record of a call: the method, its force argument, what it raised and
\* the commands it issued.
Call(method, force, res) ==
    [method |-> method, force |-> force, raised |-> res.raised, cmds |-> res.cmds]

LimaInit ==
    /\ \E s \in Starts :
          /\ ~s.profile.vault /\ ~s.profile.openclaw /\ ~s.profile.agent_data
          /\ ~s.profile.yolo /\ ~s.profile.yolo_unsafe
          /\ profile = s.profile
          /\ host = s.host
    /\ cli = [Idle EXCEPT !.cmd = "LimaManager", !.pc = "calls"]
    /\ run = NotStarted
    /\ twin = NoTwin

CallStop(force, returncode) ==
    /\ cli.cmd = "LimaManager" /\ Len(cli.calls) < MaxCalls
    /\ LET res == stop(host, force, returncode)
       IN  /\ host' = res.host
           /\ cli' = [cli EXCEPT !.calls = Append(@, Call("stop", force, res))]
    /\ UNCHANGED <<profile, run, twin>>

CallDelete(force, stop_rc, delete_rc) ==
    /\ cli.cmd = "LimaManager" /\ Len(cli.calls) < MaxCalls
    /\ LET res == delete(host, force, stop_rc, delete_rc)
       IN  /\ host' = res.host
           /\ cli' = [cli EXCEPT !.calls = Append(@, Call("delete", force, res))]
    /\ UNCHANGED <<profile, run, twin>>

LimaNext ==
    \/ \E force \in BOOLEAN, rc \in StopCodes(host) : CallStop(force, rc)
    \/ \E force \in BOOLEAN, stop_rc \in StopCodes(host), delete_rc \in DeleteCodes(host) :
          CallDelete(force, stop_rc, delete_rc)

LimaSpec == LimaInit /\ [][LimaNext]_vars

(***************************************************************************)
(* build_context over every profile.  Either a caller invokes it directly, *)
(* a bounded number of times with the same profile and base directory, or  *)
(* orchestrate_up runs from the config gate (VM seen absent) to the mount  *)
(* gate, where it calls build_context in write_config, in _print_mounts    *)
(* and again in gate 4.  The agent-data and build-log directories may be   *)
(* missing at first.                                                       *)
(***************************************************************************)
\* The hosts: no VM yet, the two directories that build_context creates
\* present or not.
CtxHosts ==
    {w \in [vm : {"absent"}, generated_yaml : {"none"}, fs : HostFs, tmp : {{}}] :
        /\ MountFields \ {"agent_data", "buildlog_data"} \subseteq w.fs.exists
        /\ w.fs.vault_is_dir
        /\ w.fs.secrets_readable /\ w.fs.required_keys /\ w.fs.optional_keys}

\* The locals of a call on host w that found the VM absent at the config gate.
AtConfigGate(w) ==
    [Log(PastDependencyGate(w), "vm_exists", TRUE, 0) EXCEPT !.pc = "write_config"]

CtxInit ==
    /\ profile \in PlainProfiles
    /\ host \in CtxHosts
    /\ \/ /\ cli = [Idle EXCEPT !.cmd = "build_context", !.pc = "calls"]
          /\ run = NotStarted
       \/ /\ profile.openclaw
          /\ cli = [Idle EXCEPT !.cmd = "orchestrate_up", !.pc = "orchestrate"]
          /\ run = AtConfigGate(host)
    /\ twin = NoTwin

\* build_context(profile, bootstrap_dir), called directly; the call is recorded
\* with the file system it found.
CallBuildContext ==
    /\ cli.cmd = "build_context" /\ Len(cli.calls) < MaxCalls
    /\ LET res == build_context(profile, host.fs)
       IN  /\ host' = [host EXCEPT !.fs = res.fs]
           /\ cli' = [cli EXCEPT !.calls =
                         Append(@, [method |-> "build_context", ctx |-> res.ctx,
                                    fs |-> host.fs])]
    /\ UNCHANGED <<profile, run, twin>>

CtxNext ==
    \/ CallBuildContext
    \/ WriteConfig
    \/ EnsureRunning
    \/ Create
    \/ VmStatus
    \/ Start
    \/ BuildContext

CtxSpec == CtxInit /\ [][CtxNext]_vars

(***************************************************************************)
(* validate_profile over profiles and host file systems.  A caller         *)
(* validates the profile a bounded number of times; each call is recorded  *)
(* with the file system it read, the result and the result's ok property.  *)
(* The secrets file, when readable, is text.                               *)
(***************************************************************************)
\* The profiles: every choice of the openclaw, config, secrets and vault
\* mounts and of the two overlay modes.
ValProfiles ==
    {p \in PlainProfiles :
        /\ ~p.agent_data /\ ~p.buildlog_data
        /\ ~p.memgraph /\ p.memgraph_ports = <<>>}

\* The hosts: any of the four paths may be missing, the secrets file may be
\* unreadable or lack required or optional keys.
ValHosts ==
    {w \in [vm : {"absent"}, generated_yaml : {"none"}, fs : HostFs, tmp : {{}}] :
        /\ {"agent_data", "buildlog_data"} \subseteq w.fs.exists
        /\ w.fs.vault_is_dir = ("vault" \in w.fs.exists)}

ValInit ==
    /\ profile \in ValProfiles
    /\ host \in ValHosts
    /\ cli = [Idle EXCEPT !.cmd = "validate_profile", !.pc = "calls"]
    /\ run = NotStarted
    /\ twin = NoTwin

CallValidateProfile ==
    /\ cli.cmd = "validate_profile" /\ Len(cli.calls) < MaxCalls
    /\ LET result == validate_profile(profile, host.fs)
       IN  cli' = [cli EXCEPT !.calls =
                      Append(@, [method |-> "validate_profile", fs |-> host.fs,
                                 result |-> result, ok |-> ok(result)])]
    /\ UNCHANGED <<profile, host, run, twin>>

ValNext == CallValidateProfile

ValSpec == ValInit /\ [][ValNext]_vars

(***************************************************************************)
(* The three list-query methods over arbitrary outputs.  A caller invokes  *)
(* vm_exists, vm_status or vm_info once; the query prints any sequence of  *)
(* at most MaxLines lines and exits with 0 or 1.  The call is recorded     *)
(* with the output, what it raised and what it returned.                   *)
(***************************************************************************)
\* The longest output of the list query.
MaxLines == 3

\* The lines the query may print.
LineKinds ==
    {BadLine, ValueLine, Entry("default", "Running"), Entry("none", "Running"),
     Entry(VM_NAME, "Running"), Entry(VM_NAME, "Stopped"), Entry(VM_NAME, "none")}

ListOutputs ==
    [returncode : LimaCodes,
     lines : UNION {[1..n -> LineKinds] : n \in 0..MaxLines}]

ListInit ==
    /\ \E s \in Starts :
          /\ ~s.profile.vault /\ ~s.profile.openclaw
          /\ ~s.profile.yolo /\ ~s.profile.yolo_unsafe
          /\ s.host.vm = "absent" /\ s.host.fs.exists = MountFields
          /\ profile = s.profile
          /\ host = s.host
    /\ cli = [Idle EXCEPT !.cmd = "LimaManager", !.pc = "calls"]
    /\ run = NotStarted
    /\ twin = NoTwin

QueryCall(method, proc, value) ==
    [method |-> method, proc |-> proc, raised |-> ListRaised(proc),
     value |-> IF ListRaised(proc) = "none" THEN value ELSE "none"]

CallVmExists(proc) ==
    /\ cli.cmd = "LimaManager" /\ cli.calls = <<>>
    /\ cli' = [cli EXCEPT !.calls = <<QueryCall("vm_exists", proc, vm_exists(proc))>>]
    /\ UNCHANGED <<profile, host, run, twin>>

CallVmStatus(proc) ==
    /\ cli.cmd = "LimaManager" /\ cli.calls = <<>>
    /\ cli' = [cli EXCEPT !.calls = <<QueryCall("vm_status", proc, vm_status(proc))>>]
    /\ UNCHANGED <<profile, host, run, twin>>

CallVmInfo(proc) ==
    /\ cli.cmd = "LimaManager" /\ cli.calls = <<>>
    /\ cli' = [cli EXCEPT !.calls = <<QueryCall("vm_info", proc, vm_info(proc))>>]
    /\ UNCHANGED <<profile, host, run, twin>>

ListNext ==
    \/ \E proc \in ListOutputs : CallVmExists(proc)
    \/ \E proc \in ListOutputs : CallVmStatus(proc)
    \/ \E proc \in ListOutputs : CallVmInfo(proc)

ListSpec == ListInit /\ [][ListNext]_vars

(***************************************************************************)
(* get_ssh_details over show-ssh outputs.  A caller invokes it once; the   *)
(* query exits with 0 or 1 and prints at most MaxLines lines.  The call is *)
(* recorded with the output and the outcome.                               *)
(***************************************************************************)
\* The lines show-ssh may print: each field once or twice, the identity file
\* quoted, bare, as an empty pair of quotes or blank, the port not a number.
SshLineKinds ==
    {SshLine("Hostname", <<"h">>), SshLine("Port", <<"6", "0">>),
     SshLine("Port", <<"6", "x">>), SshLine("User", <<"u">>),
     SshLine("IdentityFile", <<"\"", "k", "\"">>), SshLine("IdentityFile", <<"j">>),
     SshLine("IdentityFile", <<"\"", "\"">>), SshLine("IdentityFile", <<" ">>)}

SshOutputs ==
    [returncode : LimaCodes,
     config : UNION {[1..n -> SshLineKinds] : n \in 0..MaxLines}]

SshInit == ListInit

CallGetSshDetails(proc) ==
    /\ cli.cmd = "LimaManager" /\ cli.calls = <<>>
    /\ cli' = [cli EXCEPT !.calls =
                  <<[method |-> "get_ssh_details", proc |-> proc,
                     res |-> get_ssh_details(proc)]>>]
    /\ UNCHANGED <<profile, host, run, twin>>

SshNext == \E proc \in SshOutputs : CallGetSshDetails(proc)

SshSpec == SshInit /\ [][SshNext]_vars

(***************************************************************************)
(* build_extra_vars over profiles.  A caller invokes it once on a profile  *)
(* with any choice of the secrets, agent-data and build-log mounts, of the *)
(* four modes and of the extra variables; the call is recorded with the    *)
(* list it returned.                                                       *)
(***************************************************************************)
VarsProfiles ==
    {p \in SandboxProfile :
        /\ ~p.openclaw /\ ~p.config /\ ~p.vault /\ p.memgraph_ports = <<>>}

VarsInit ==
    /\ profile \in VarsProfiles
    /\ host \in {w \in Hosts : /\ w.vm = "absent" /\ w.generated_yaml = "none"
                              /\ w.fs.exists = MountFields}
    /\ cli = [Idle EXCEPT !.cmd = "build_extra_vars", !.pc = "calls"]
    /\ run = NotStarted
    /\ twin = NoTwin

CallBuildExtraVars ==
    /\ cli.cmd = "build_extra_vars" /\ cli.calls = <<>>
    /\ cli' = [cli EXCEPT !.calls =
                  <<[method |-> "build_extra_vars", argv |-> build_extra_vars(profile)]>>]
    /\ UNCHANGED <<profile, host, run, twin>>

VarsNext == CallBuildExtraVars

VarsSpec == VarsInit /\ [][VarsNext]_vars

(***************************************************************************)
(* The operations that stop, delete or look into the VM, each called once  *)
(* on a host whose VM is absent, stopped or running: the four agent-facing *)
(* operations and the CLI's down and destroy.  limactl may be missing from *)
(* the PATH, and each list query may fail.                                 *)
(***************************************************************************)
McpInit == Init

McpNext ==
    \/ \E w \in BOOLEAN, proc \in ListQueries(host.vm), rc \in StopCodes(host) :
          sandbox_down(w, proc, rc)
    \/ \E w \in BOOLEAN, proc \in ListQueries(host.vm),
          stop_rc \in StopCodes(host), delete_rc \in DeleteCodes(host) :
          sandbox_destroy(w, proc, stop_rc, delete_rc)
    \/ \E blank \in BOOLEAN, w \in BOOLEAN,
          p1 \in ListQueries(host.vm), p2 \in ListQueries(host.vm),
          proc \in ExecOutcomes(host) :
          sandbox_exec(blank, w, p1, p2, proc)
    \/ \E w \in BOOLEAN, p1 \in ListQueries(host.vm), p2 \in ListQueries(host.vm),
          proc \in ShowSsh(host) :
          sandbox_ssh_info(w, p1, p2, proc)
    \/ \E rc \in StopCodes(host) : down(rc)
    \/ \E stop_rc \in StopCodes(host), delete_rc \in DeleteCodes(host) :
          destroy(stop_rc, delete_rc)

McpSpec == McpInit /\ [][McpNext]_vars

(***************************************************************************)
(* Two calls of orchestrate_up one after the other, with the same profile  *)
(* on the same host and no other actor: the second call begins on the host *)
(* as the first left it.  Both calls are followed from the config gate on  *)
(* (the dependency gate passed); twin keeps the first call and the host at *)
(* its end.                                                                *)
(***************************************************************************)
RerunInit ==
    /\ \E s \in Starts :
          /\ s.profile.openclaw /\ ~s.profile.yolo /\ ~s.profile.yolo_unsafe
          /\ profile = s.profile
          /\ host = s.host
          /\ run = PastDependencyGate(s.host)
    /\ cli = [Idle EXCEPT !.cmd = "orchestrate_up", !.pc = "orchestrate"]
    /\ twin = NoTwin

\* The first call has ended; the caller runs orchestrate_up again.
Rerun ==
    /\ At("end") /\ twin = NoTwin
    /\ twin' = [host |-> host, run |-> run]
    /\ run' = PastDependencyGate(host)
    /\ UNCHANGED <<profile, host, cli>>

RerunNext ==
    \/ Rerun
    \/ VmExists
    \/ WriteConfig
    \/ EnsureRunning
    \/ Create
    \/ VmStatus
    \/ Start
    \/ BuildContext
    \/ VerifyMount
    \/ GetSshDetails
    \/ Mkstemp
    \/ RunPlaybook
    \/ SyncVault
    \/ Report

RerunSpec == RerunInit /\ [][RerunNext]_vars

(***************************************************************************)
(* Properties of orchestrate_up.                                           *)
(***************************************************************************)
\* The names of the steps a run has taken.
Steps(r) == {r.trace[k].step : k \in DOMAIN r.trace}

\* The positions of a step in the history of a run.
Taken(r, step) == {k \in DOMAIN r.trace : r.trace[k].step = step}

\* The external steps in the order of the source text of orchestrate_up.
StepOrder ==
    <<"check_brew", "brew_bundle", "galaxy", "vm_exists", "write_config",
      "ensure_running", "create", "start", "verify_mount", "get_ssh_details",
      "run_playbook", "sync_vault", "report">>

Rank(step) == CHOOSE k \in DOMAIN StepOrder : StepOrder[k] = step

\* The numbered gates of orchestrate_up and the steps of each.
Gates ==
    <<{"check_brew", "brew_bundle", "galaxy"}, {"vm_exists", "write_config"},
      {"ensure_running", "create", "start"}, {"verify_mount"},
      {"get_ssh_details", "run_playbook"}, {"sync_vault"}, {"report"}>>

GateOf(step) == CHOOSE g \in DOMAIN Gates : step \in Gates[g]

NonFatalSteps == {"galaxy", "sync_vault"}

\* A step of a fatal gate that failed.
FatalFailure(e) == ~e.ok /\ e.step \notin NonFatalSteps

\* The steps every run takes before a later one, in order.
Backbone ==
    <<"check_brew", "brew_bundle", "galaxy", "vm_exists", "ensure_running",
      "verify_mount", "get_ssh_details", "run_playbook", "report">>

\* The commands of the VM manager orchestrate_up issues.
LimaSteps ==
    {"vm_exists", "ensure_running", "create", "start", "verify_mount", "get_ssh_details"}

\* C1: the external steps of a run occur only in the fixed order (package-manager
\* check, brew bundle, collection install, existence query, config write,
\* ensure_running with create and start, mount verification, SSH-details fetch,
\* playbook, vault sync, report): each step is followed only by a later one of
\* that order (or, for a mount verification, by the next mount's), none is taken
\* before the steps that precede it in every run, and once a step of a fatal
\* gate has failed no step of a later gate is taken.
C1_FixedOrderFailFast ==
    LET t == run.trace
    IN  /\ \A i \in 1..(Len(t) - 1) :
              \/ Rank(t[i].step) < Rank(t[i + 1].step)
              \/ t[i].step = "verify_mount" /\ t[i + 1].step = "verify_mount"
        /\ \A k \in 2..Len(Backbone) :
              Backbone[k] \in Steps(run) => Backbone[k - 1] \in Steps(run)
        /\ \A i \in DOMAIN t :
              FatalFailure(t[i]) =>
                  \A j \in (i + 1)..Len(t) : GateOf(t[j].step) <= GateOf(t[i].step)

\* C1 witness: a run that created the VM and then failed to start it has ended
\* at the runtime gate.
C1_Witness ==
    /\ run.pc = "end"
    /\ \E k \in Taken(run, "start") : ~run.trace[k].ok
    /\ Taken(run, "create") # {}

\* C2: orchestrate_up returns 0 exactly when it reached the report step, and it
\* reaches the report step only when the package manager was present, brew
\* bundle returned 0, the config gate passed, create and start did not fail,
\* every mount of the context verified true, the SSH details were obtained and
\* the playbook returned 0.
C2_ZeroIffReport ==
    LET t == run.trace
    IN  /\ (run.status = "returned" /\ run.rc = 0) <=> "report" \in Steps(run)
        /\ "report" \in Steps(run) =>
              /\ \A k \in DOMAIN t : ~FatalFailure(t[k])
              /\ \A step \in {"check_brew", "brew_bundle", "vm_exists", "ensure_running",
                              "get_ssh_details", "run_playbook"} :
                    \E k \in Taken(run, step) : t[k].ok
              /\ \A k \in Taken(run, "check_brew") \cup Taken(run, "brew_bundle")
                          \cup Taken(run, "run_playbook") : t[k].code = 0
              /\ Cardinality(Taken(run, "verify_mount")) = Len(build_mounts(profile))
              /\ \A k \in Taken(run, "verify_mount") : t[k].ok

\* C2 witness: a run that returned 0 after creating and starting the VM.
C2_Witness ==
    /\ run.status = "returned" /\ run.rc = 0
    /\ run.created
    /\ "report" \in Steps(run)

\* C3: when a mount of the context verifies as not accessible, verify_mount is
\* still called for every mount of the context, the run then returns 1, and
\* neither the SSH-details fetch nor the playbook is reached.
C3_MountGateChecksAll ==
    LET t == run.trace
    IN  (\E k \in Taken(run, "verify_mount") : ~t[k].ok) =>
            /\ Steps(run) \cap {"get_ssh_details", "run_playbook", "sync_vault", "report"} = {}
            /\ run.pc \in {"verify_mount", "end"}
            /\ run.pc = "end" =>
                  /\ run.status = "returned" /\ run.rc = 1
                  /\ Cardinality(Taken(run, "verify_mount")) = Len(build_mounts(profile))

\* C3 witness: the first of at least three mounts failed and the run has ended.
C3_Witness ==
    /\ run.pc = "end"
    /\ Len(build_mounts(profile)) >= 3
    /\ \E k \in Taken(run, "verify_mount") :
          /\ ~run.trace[k].ok
          /\ k - 1 \notin Taken(run, "verify_mount")
          /\ k + 2 \in Taken(run, "verify_mount")

\* C4: when the provisioning engine exits with a non-zero code c, orchestrate_up
\* returns exactly c, and neither the vault sync nor the report step runs.
C4_PlaybookCodePropagates ==
    \A k \in Taken(run, "run_playbook") :
        run.trace[k].code # 0 =>
            /\ run.status = "returned" /\ run.rc = run.trace[k].code
            /\ Steps(run) \cap {"sync_vault", "report"} = {}

\* C4 witness: the engine exited with a code above 1 and the run returned it.
C4_Witness ==
    /\ run.status = "returned"
    /\ \E k \in Taken(run, "run_playbook") : run.trace[k].code > 1 /\ run.rc > 1

\* C6 (as claimed): when the VM is present at the start of orchestrate_up, no
\* config document is written or overwritten during the run, and the run goes
\* on from the config gate to ensure_running.
C6_PresentVmSkipsConfigWrite ==
    (run.pc # "idle" /\ run.host0.vm # "absent") =>
        /\ ~run.wrote
        /\ "write_config" \notin Steps(run)
        /\ host.generated_yaml = run.host0.generated_yaml
        /\ run.pc # "write_config"
        /\ (Len(run.trace) > 0 /\ run.trace[Len(run.trace)].step = "vm_exists") =>
              run.pc = "ensure_running"

\* C7: when the VM does not exist and the profile has no openclaw mount, the
\* run returns 1 at the config gate and leaves the host as it was: no config
\* document is written, create and start are not invoked, the VM is still
\* absent.
C7_NoMountNoNewVm ==
    (run.host0.vm = "absent" /\ ~profile.openclaw /\ "vm_exists" \in Steps(run)) =>
        /\ run.status = "returned" /\ run.rc = 1
        /\ run.trace[Len(run.trace)].step = "vm_exists"
        /\ ~run.wrote
        /\ Steps(run) \cap {"write_config", "ensure_running", "create", "start"} = {}
        /\ host = run.host0
        /\ host.vm = "absent"

\* C7 witness: such a run, ended at the config gate after a list query that
\* succeeded.
C7_Witness ==
    /\ run.host0.vm = "absent" /\ ~profile.openclaw
    /\ run.pc = "end"
    /\ \E k \in Taken(run, "vm_exists") : run.trace[k].code = 0

\* C8: in the dependency gate a missing package manager makes the run return 1
\* at once, and a failing bundle install (a non-zero exit, or no Brewfile) makes
\* it return that step's exit code; in both cases no VM-manager command is
\* issued, no config is written and the playbook is not run.
C8_DependencyGate ==
    LET t == run.trace
        Untouched == /\ Steps(run) \cap (LimaSteps \cup {"write_config", "run_playbook"}) = {}
                     /\ ~run.wrote
                     /\ host = run.host0
    IN  /\ \A k \in Taken(run, "check_brew") :
              ~t[k].ok => /\ run.status = "returned" /\ run.rc = 1
                          /\ Len(t) = 1
                          /\ Untouched
        /\ \A k \in Taken(run, "brew_bundle") :
              ~t[k].ok => /\ run.status = "returned" /\ run.rc = t[k].code /\ run.rc # 0
                          /\ Len(t) = k
                          /\ Untouched

\* C8 witness: brew bundle exited with a code above 1 and the run returned it.
C8_Witness ==
    /\ run.status = "returned" /\ run.rc > 1
    /\ \E k \in Taken(run, "brew_bundle") : ~run.trace[k].ok /\ k = Len(run.trace)

\* A failure of a VM-supervisor operation in the history of a run: a list query,
\* create or start that exited non-zero, or an SSH-details fetch that failed.
SupervisorFailures(r) ==
    {k \in DOMAIN r.trace :
        \/ r.trace[k].step \in {"vm_exists", "ensure_running", "create", "start"}
           /\ r.trace[k].code # 0
        \/ r.trace[k].step = "get_ssh_details" /\ ~r.trace[k].ok}

\* C9 (as claimed): orchestrate_up never raises, and after a failure of a
\* VM-supervisor operation the playbook is not run and the run, once ended, has
\* returned 1.
C9_SupervisorFailureReturnsOne ==
    /\ run.status # "raised"
    /\ SupervisorFailures(run) # {} =>
          /\ "run_playbook" \notin Steps(run)
          /\ run.pc = "end" => run.status = "returned" /\ run.rc = 1

\* C10 (as claimed): orchestrate_up is invoked only with a profile for which
\* validate_profile reports no error; with an invalid profile `up` and
\* `sandbox_up` fail without taking any step and without touching the VM.
C10_ValidationBlocksOrchestration ==
    /\ run.pc # "idle" => cli.valid
    /\ (cli.cmd \in {"up", "sandbox_up"} /\ ~cli.valid) =>
          /\ run = NotStarted
          /\ cli.pc = "exit" /\ cli.exit_code # 0

\* A run in which a non-fatal step failed: the collection install, or the
\* vault sync (vault directory missing, rsync not runnable, rsync non-zero).
NonFatalFailed(r) == \E k \in DOMAIN r.trace : r.trace[k].step \in NonFatalSteps /\ ~r.trace[k].ok

\* C5 (as claimed): two runs of orchestrate_up that differ only in the outcome
\* of the collection install and of the vault sync end alike, with the same
\* returned exit code; a run whose other steps all succeed returns 0, with a
\* warning when a non-fatal step failed.
C5_NonFatalStepsDoNotChangeExit ==
    /\ (run.pc = "end" /\ twin.run.pc = "end") =>
          /\ run.status = twin.run.status
          /\ run.rc = twin.run.rc
    /\ \A r \in {run, twin.run} :
          (r.pc = "end" /\ \A k \in DOMAIN r.trace : ~FatalFailure(r.trace[k])) =>
              /\ r.status = "returned" /\ r.rc = 0
              /\ NonFatalFailed(r) => r.warnings # {}

\* ensure_running has returned to orchestrate_up in this run.
EnsureRunningReturned(r) ==
    /\ "ensure_running" \in Steps(r)
    /\ r.pc \notin {"create", "vm_status", "start"}
    /\ \A k \in DOMAIN r.trace : r.trace[k].step \in {"create", "start"} => r.trace[k].ok

\* C11 (as claimed): ensure_running invokes create if and only if the VM is
\* absent when it begins, then start if and only if the status it reads is not
\* Running; create comes before start, a failed create ends the call without a
\* start, and the value returned is true exactly when create was invoked.
C11_EnsureRunning ==
    LET t == run.trace
    IN  /\ run.pc = "create" => run.vm_at_entry = "absent"
        /\ ("ensure_running" \in Steps(run) /\ run.pc # "create") =>
              ("create" \in Steps(run) <=> run.vm_at_entry = "absent")
        /\ run.pc = "start" => run.status_read # "Running"
        /\ (run.status_read # "unset" /\ run.pc # "start") =>
              ("start" \in Steps(run) <=> run.status_read # "Running")
        /\ \A i \in Taken(run, "start"), j \in Taken(run, "create") : j < i
        /\ Cardinality(Taken(run, "create")) <= 1
        /\ Cardinality(Taken(run, "start")) <= 1
        /\ \A j \in Taken(run, "create") :
              ~t[j].ok => /\ "start" \notin Steps(run)
                          /\ run.pc = "end" /\ run.rc = 1 /\ j = Len(t)
        /\ EnsureRunningReturned(run) => (run.created <=> "create" \in Steps(run))

\* C12: the vault sync is attempted in a run exactly when the playbook returned
\* 0 in that run, the profile has a vault mount and yolo_unsafe is off; it is
\* attempted at most once, after the playbook and before the report, with the
\* SSH details that get_ssh_details returned in the same run.
C12_VaultSyncCondition ==
    LET t == run.trace
        PlaybookZero == \E k \in Taken(run, "run_playbook") : t[k].ok
        Due == PlaybookZero /\ profile.vault /\ ~profile.yolo_unsafe
    IN  /\ run.pc = "sync_vault" => Due /\ "sync_vault" \notin Steps(run)
        /\ run.pc \in {"report", "end"} => ("sync_vault" \in Steps(run) <=> Due)
        /\ run.pc \notin {"sync_vault", "report", "end"} => "sync_vault" \notin Steps(run)
        /\ Cardinality(Taken(run, "sync_vault")) <= 1
        /\ \A k \in Taken(run, "sync_vault") :
              /\ k > 1 /\ t[k - 1].step = "run_playbook" /\ t[k - 1].ok
              /\ \A j \in Taken(run, "report") : k < j
              /\ \E j \in Taken(run, "get_ssh_details") : j < k /\ t[j].ok
              /\ run.sync_ssh = run.ssh /\ run.ssh # NoSSH

\* C12 witness: a run that synced the vault and went on to report.
C12_Witness ==
    /\ run.pc = "end" /\ run.status = "returned" /\ run.rc = 0
    /\ "sync_vault" \in Steps(run)
    /\ run.sync_ssh # NoSSH

\* The create commands that succeeded in a run.
Created(r) == {k \in Taken(r, "create") : r.trace[k].ok}

\* C13: two concurrent runs are not serialised.  Each run invokes create and
\* start at most once (so a single orchestration with no other actor invokes
\* each at most once); when both runs invoke create, at most one create
\* succeeds, and a run whose create failed returns 1 at the runtime gate,
\* whether or not the other run has created the VM.
C13_ConcurrentCreateRace ==
    /\ \A r \in {run, twin.run} :
          /\ Cardinality(Taken(r, "create")) <= 1
          /\ Cardinality(Taken(r, "start")) <= 1
          /\ \A k \in Taken(r, "create") :
                ~r.trace[k].ok => /\ r.pc = "end" /\ r.status = "returned" /\ r.rc = 1
                                  /\ k = Len(r.trace)
    /\ ~(Created(run) # {} /\ Created(twin.run) # {})
    /\ (Created(run) # {} \/ Created(twin.run) # {}) => host.vm # "absent"

\* C13 witness: both runs saw the VM absent (their list queries succeeded) and
\* both invoked create; the first run's create failed and it returned 1, the
\* second created the VM, which now runs, and returned 0.
C13_Witness ==
    /\ run.vm_at_entry = "absent" /\ twin.run.vm_at_entry = "absent"
    /\ \A r \in {run, twin.run} :
          \A k \in Taken(r, "vm_exists") \cup Taken(r, "ensure_running") :
              r.trace[k].code = 0
    /\ Taken(run, "create") # {} /\ Created(run) = {}
    /\ run.status = "returned" /\ run.rc = 1
    /\ Created(twin.run) # {}
    /\ twin.run.pc = "end" /\ twin.run.status = "returned" /\ twin.run.rc = 0
    /\ host.vm = "Running"

\* C14 (as claimed): `up --fresh` deletes the VM before it provisions, and
\* when the delete fails (limactl delete exits non-zero) the command exits with
\* code 1 without calling orchestrate_up.
C14_FreshAbortsOnDeleteFailure ==
    (cli.cmd = "up" /\ cli.fresh) =>
        /\ run.pc # "idle" => Len(cli.cmds) = 2
        /\ (cli.cmds # <<>> /\ cli.cmds[Len(cli.cmds)].returncode # 0) =>
              /\ run = NotStarted
              /\ cli.pc = "exit" /\ cli.exit_code = 1

\* C15: LimaManager.delete issues exactly two limactl commands, a forced stop
\* and then the delete proper (with --force unless force is false), whatever
\* the stop's exit code; stop issues one command; neither raises when limactl
\* exits non-zero.
C15_DeleteStopsThenDeletes ==
    \A k \in DOMAIN cli.calls :
        LET c == cli.calls[k]
        IN  /\ c.raised = "none"
            /\ c.method = "delete" =>
                  /\ Len(c.cmds) = 2
                  /\ c.cmds[1].argv = <<"limactl", "stop", "--force", VM_NAME>>
                  /\ c.cmds[2].argv = IF c.force
                                      THEN <<"limactl", "delete", "--force", VM_NAME>>
                                      ELSE <<"limactl", "delete", VM_NAME>>
            /\ c.method = "stop" =>
                  /\ Len(c.cmds) = 1
                  /\ c.cmds[1].argv = IF c.force
                                      THEN <<"limactl", "stop", "--force", VM_NAME>>
                                      ELSE <<"limactl", "stop", VM_NAME>>

\* C15 witness: a delete(force=False) whose stop and whose delete both exited
\* non-zero, and a stop that exited non-zero.
C15_Witness ==
    /\ \E k \in DOMAIN cli.calls :
          /\ cli.calls[k].method = "delete" /\ ~cli.calls[k].force
          /\ cli.calls[k].cmds[1].returncode # 0
          /\ cli.calls[k].cmds[2].returncode # 0
    /\ \E k \in DOMAIN cli.calls :
          /\ cli.calls[k].method = "stop" /\ cli.calls[k].cmds[1].returncode # 0

\* C16: run_playbook removes the inventory file it created on every exit path:
\* the file exists while the engine runs, and once run_playbook has returned
\* (engine exit code zero or not) or raised, the file no longer exists.
C16_InventoryRemoved ==
    /\ run.pc = "ansible_playbook" => run.inv_path # 0 /\ run.inv_path \in host.tmp
    /\ "run_playbook" \in Steps(run) => run.inv_path # 0 /\ run.inv_path \notin host.tmp
    /\ (run.pc # "ansible_playbook" /\ "run_playbook" \notin Steps(run)) =>
          run.inv_path = 0 /\ host.tmp = {}

\* C16 witness: run_playbook raised because the engine could not be run, and
\* the inventory it had written is gone.
C16_Witness ==
    /\ run.status = "raised" /\ run.exc = "FileNotFoundError"
    /\ run.trace[Len(run.trace)].step = "run_playbook"
    /\ run.inv_path # 0 /\ run.inv_path \notin host.tmp

RunRebuiltContext ==
    /\ run.pc = "verify_mount" /\ run.wrote
    /\ profile.agent_data /\ "agent_data" \notin run.host0.fs.exists
    /\ Len(run.mounts) >= 3

\* The fixed order of the mount points, and the profile field of each role.
MountOrder ==
    <<"/mnt/openclaw", "/mnt/provision", "/mnt/obsidian", "/mnt/openclaw-config",
      "/mnt/openclaw-agents", "/mnt/buildlog-data", "/mnt/secrets">>

MountRole ==
    <<"openclaw", "provision", "vault", "config", "agent_data", "buildlog_data", "secrets">>

\* The position of a mount point in the fixed order.
MountRank(mount_point) == CHOOSE k \in DOMAIN MountOrder : MountOrder[k] = mount_point

\* Whether the profile configures the role at position k of the fixed order.
Configured(p, k) == MountRole[k] = "provision" \/ p[MountRole[k]]

\* C18: the mount list of build_context is the subsequence of the fixed order
\* primary-repo, provisioning-assets, vault, config, agent-data, build-log-data,
\* secrets-parent made of the provisioning-assets mount and exactly the
\* configured roles, each once.
C18_MountOrder ==
    \A c \in DOMAIN cli.calls :
        LET ms == cli.calls[c].ctx.mounts
        IN  /\ \A i \in DOMAIN ms : ms[i].mount_point \in {MountOrder[k] : k \in DOMAIN MountOrder}
            /\ \A i \in 1..(Len(ms) - 1) :
                  MountRank(ms[i].mount_point) < MountRank(ms[i + 1].mount_point)
            /\ {MountRank(ms[i].mount_point) : i \in DOMAIN ms}
                  = {k \in DOMAIN MountOrder : Configured(profile, k)}
            /\ (\A k \in DOMAIN MountOrder : Configured(profile, k)) =>
                  [i \in DOMAIN ms |-> ms[i].mount_point] = MountOrder

\* C18 witness: a call with every role configured, yielding seven mounts.
C18_Witness ==
    /\ cli.calls # <<>>
    /\ \A k \in DOMAIN MountOrder : Configured(profile, k)
    /\ Len(cli.calls[1].ctx.mounts) = 7

\* C19: in the mount list of build_context the provisioning-assets and
\* secrets-parent mounts are never writable, the agent-data and build-log-data
\* mounts always are, and the primary-repo, vault and config mounts are
\* writable exactly when yolo_unsafe is set, whatever yolo is.
C19_MountWritability ==
    \A c \in DOMAIN cli.calls :
        LET ms == cli.calls[c].ctx.mounts
        IN  \A i \in DOMAIN ms :
                /\ ms[i].mount_point \in {"/mnt/provision", "/mnt/secrets"} => ~ms[i].writable
                /\ ms[i].mount_point \in {"/mnt/openclaw-agents", "/mnt/buildlog-data"} =>
                      ms[i].writable
                /\ ms[i].mount_point \in {"/mnt/openclaw", "/mnt/obsidian", "/mnt/openclaw-config"} =>
                      (ms[i].writable <=> profile.yolo_unsafe)

\* C19 witness: a call for a profile with yolo set and yolo_unsafe unset that
\* has mounts of all three kinds.
C19_Witness ==
    /\ cli.calls # <<>>
    /\ profile.yolo /\ ~profile.yolo_unsafe
    /\ profile.openclaw /\ profile.vault /\ profile.config
    /\ profile.agent_data /\ profile.secrets

\* C20: the port-forward list of build_context starts with the default port
\* 18789 and then holds either the three ports 7687, 3000, 7444 when memgraph
\* is set (memgraph_ports being ignored), or one entry per value of
\* memgraph_ports when it is not; each entry forwards a guest port to the same
\* host port.
C20_PortForwards ==
    \A c \in DOMAIN cli.calls :
        LET pf == cli.calls[c].ctx.port_forwards
            guest == [i \in DOMAIN pf |-> pf[i].guest_port]
        IN  /\ \A i \in DOMAIN pf : pf[i].host_port = pf[i].guest_port
            /\ guest = IF profile.memgraph
                       THEN <<18789, 7687, 3000, 7444>>
                       ELSE <<18789>> \o profile.memgraph_ports

\* C20 witness: a call for a profile with memgraph set and two explicit ports.
C20_Witness ==
    /\ cli.calls # <<>>
    /\ profile.memgraph /\ Len(profile.memgraph_ports) = 2
    /\ Len(cli.calls[1].ctx.port_forwards) = 4
(***************************************************************************)
(* Properties of validate_profile.                                         *)
(***************************************************************************)
\* Message x is in list seq.
Reports(seq, x) == \E i \in DOMAIN seq : seq[i] = x

\* C21: validate_profile never short-circuits.  In every recorded call, a
\* profile with both yolo and yolo_unsafe set gets ok = FALSE and the
\* "mutually exclusive" error, whatever the path and secrets checks found;
\* every error and warning of the path, secrets and coherence checks is in the
\* same result; ok holds exactly when the error list is empty, so warnings
\* never affect it.
C21_ValidateAccumulates ==
    \A k \in DOMAIN cli.calls :
        LET c == cli.calls[k]
            e == c.result.errors
            w == c.result.warnings
            readable == profile.secrets /\ "secrets" \in c.fs.exists
                        /\ c.fs.secrets_readable
        IN  c.method = "validate_profile" =>
              /\ (profile.yolo /\ profile.yolo_unsafe) =>
                     ~c.ok /\ Reports(e, [kind |-> "mutually_exclusive"])
              /\ \A name \in MountFields :
                     (profile[name] /\ name \notin c.fs.exists) =>
                        Reports(e, [kind |-> "path_missing", field |-> name])
              /\ ~profile.secrets => Reports(w, [kind |-> "no_secrets"])
              /\ (profile.secrets /\ "secrets" \in c.fs.exists
                    /\ ~c.fs.secrets_readable) =>
                     Reports(e, [kind |-> "secrets_unreadable"])
              /\ (readable /\ ~c.fs.required_keys) =>
                     Reports(e, [kind |-> "missing_required_keys"])
              /\ (readable /\ ~c.fs.optional_keys) =>
                     Reports(w, [kind |-> "missing_optional_keys"])
              /\ ~profile.openclaw => Reports(w, [kind |-> "no_openclaw"])
              /\ c.ok <=> (e = <<>>)
              /\ (e = <<>> /\ w # <<>>) => c.ok

\* Both modes set, a configured path missing, and the secrets file lacking
\* required and optional keys: three checks each contributed to one result.
C21_Witness ==
    \E k \in DOMAIN cli.calls :
        LET c == cli.calls[k]
        IN  /\ c.method = "validate_profile"
            /\ profile.yolo /\ profile.yolo_unsafe
            /\ profile.vault /\ "vault" \notin c.fs.exists
            /\ profile.secrets /\ "secrets" \in c.fs.exists
            /\ c.fs.secrets_readable /\ ~c.fs.required_keys /\ ~c.fs.optional_keys
            /\ Len(c.result.errors) = 3 /\ Len(c.result.warnings) = 1
            /\ ~c.ok

(***************************************************************************)
(* Properties of the list-query methods.                                   *)
(***************************************************************************)
\* Index of the first JSON object among lines that names VM_NAME; 0 if none.
FirstRecord(lines) ==
    LET ks == {k \in DOMAIN lines :
                  lines[k].kind = "entry" /\ lines[k].name = VM_NAME}
    IN  IF ks = {} THEN 0 ELSE CHOOSE k \in ks : \A j \in ks : k <= j

\* C22: vm_exists, vm_status and vm_info read one list output the same way.
\* For every output, no call raises; after a successful query vm_exists is
\* TRUE iff vm_info is a record iff some JSON object of the output names the
\* VM, and vm_status is the status of the first such object, "unknown" when
\* there is none or it carries no status; after a failed query the three
\* return FALSE, "unknown" and None.
C22_ListScanConsistent ==
    \A i \in DOMAIN cli.calls :
        LET c == cli.calls[i]
            k == IF c.proc.returncode = 0 THEN FirstRecord(c.proc.lines) ELSE 0
        IN  c.method \in {"vm_exists", "vm_status", "vm_info"} =>
              /\ c.raised = "none"
              /\ c.method = "vm_exists" => (c.value = (k # 0))
              /\ c.method = "vm_info" =>
                    (c.value = IF k = 0 THEN <<>> ELSE <<c.proc.lines[k]>>)
              /\ c.method = "vm_status" =>
                    (c.value = IF k = 0 \/ c.proc.lines[k].status = "none"
                               THEN "unknown" ELSE c.proc.lines[k].status)

(***************************************************************************)
(* Properties of get_ssh_details.                                          *)
(***************************************************************************)
\* Index of the first line of config that holds the field; 0 if none.
FirstLine(config, field_name) ==
    LET ks == {k \in DOMAIN config : config[k].field = field_name}
    IN  IF ks = {} THEN 0 ELSE CHOOSE k \in ks : \A j \in ks : k <= j

\* The value of the first line that holds the field, surrounding blanks
\* removed, or the default when no line holds it.
FirstValue(config, field_name, default) ==
    LET k == FirstLine(config, field_name)
    IN  IF k = 0 THEN default ELSE Strip(config[k].value, " ")

Alternates(argv) ==
    /\ Len(argv) % 2 = 0
    /\ \A k \in 1..(Len(argv) \div 2) :
          /\ argv[2 * k - 1] = "-e"
          /\ Len(argv[2 * k]) = 3 /\ argv[2 * k][2] = "="

\* The key and the value of the k-th pair of the list.
KeyAt(argv, k) == argv[2 * k][1]

ValueAt(argv, k) == argv[2 * k][3]

\* From pair n + 1 on, the list holds the user's variables in their order.
UserVarsFollow(argv, n, p) ==
    /\ Len(argv) = 2 * (n + Len(p.extra_vars))
    /\ \A k \in DOMAIN p.extra_vars :
          /\ KeyAt(argv, n + k) = p.extra_vars[k].key
          /\ ValueAt(argv, n + k) = p.extra_vars[k].value

\* The first five pairs: tenant, three path constants, secrets basename.
IdentityAndPaths(argv, p) ==
    /\ Len(argv) >= 10
    /\ KeyAt(argv, 1) = "tenant_name" /\ ValueAt(argv, 1) = "user"
    /\ KeyAt(argv, 2) = "provision_path" /\ ValueAt(argv, 2) = "/mnt/provision"
    /\ KeyAt(argv, 3) = "openclaw_path" /\ ValueAt(argv, 3) = "/mnt/openclaw"
    /\ KeyAt(argv, 4) = "obsidian_path" /\ ValueAt(argv, 4) = "/mnt/obsidian"
    /\ KeyAt(argv, 5) = "secrets_filename"
    /\ ValueAt(argv, 5) = IF p.secrets THEN "secrets.env" ELSE ""

\* C24 as stated: build_extra_vars returns alternating "-e" and key=value
\* elements: the tenant, three path constants, the secrets basename, then
\* five boolean mode flags as "true" / "false", then the user's variables.
C24_FiveBooleanFlags ==
    \A i \in DOMAIN cli.calls :
        LET c == cli.calls[i]
        IN  c.method = "build_extra_vars" =>
              /\ Alternates(c.argv)
              /\ IdentityAndPaths(c.argv, profile)
              /\ UserVarsFollow(c.argv, 10, profile)
              /\ \A k \in 6..10 : ValueAt(c.argv, k) \in {"true", "false"}

\* C24, amended: build_extra_vars returns alternating "-e" and key=value
\* elements: the tenant, three path constants, the secrets basename ("" when
\* unset), then six pairs: overlay_yolo_mode, overlay_yolo_unsafe and
\* docker_enabled as lowercase booleans, agent_data_mount and
\* buildlog_data_mount as the guest mount point or "" when the mount is not
\* configured, memgraph_enabled as a lowercase boolean; then the user's
\* variables in order.  Every built-in pair precedes every user pair, and a
\* user key equal to a built-in key is emitted as well, later.
C24_ExtraVarsOrder ==
    \A i \in DOMAIN cli.calls :
        LET c == cli.calls[i]
            p == profile
        IN  c.method = "build_extra_vars" =>
              /\ Alternates(c.argv)
              /\ IdentityAndPaths(c.argv, p)
              /\ UserVarsFollow(c.argv, 11, p)
              /\ KeyAt(c.argv, 6) = "overlay_yolo_mode"
              /\ ValueAt(c.argv, 6) = (IF p.yolo THEN "true" ELSE "false")
              /\ KeyAt(c.argv, 7) = "overlay_yolo_unsafe"
              /\ ValueAt(c.argv, 7) = (IF p.yolo_unsafe THEN "true" ELSE "false")
              /\ KeyAt(c.argv, 8) = "docker_enabled"
              /\ ValueAt(c.argv, 8) = (IF p.no_docker THEN "false" ELSE "true")
              /\ KeyAt(c.argv, 9) = "agent_data_mount"
              /\ ValueAt(c.argv, 9) = (IF p.agent_data THEN "/mnt/openclaw-agents" ELSE "")
              /\ KeyAt(c.argv, 10) = "buildlog_data_mount"
              /\ ValueAt(c.argv, 10) = (IF p.buildlog_data THEN "/mnt/buildlog-data" ELSE "")
              /\ KeyAt(c.argv, 11) = "memgraph_enabled"
              /\ ValueAt(c.argv, 11) = (IF p.memgraph THEN "true" ELSE "false")
              /\ \A k \in DOMAIN p.extra_vars :
                    \A j \in 1..11 :
                        KeyAt(c.argv, j) = p.extra_vars[k].key =>
                            /\ j < 11 + k
                            /\ KeyAt(c.argv, 11 + k) = KeyAt(c.argv, j)

\* A profile whose extra variables set memgraph_enabled again: the list holds
\* the built-in pair and, after it, the user's pair.
C24_Witness ==
    \E i \in DOMAIN cli.calls :
        LET c == cli.calls[i]
        IN  /\ c.method = "build_extra_vars"
            /\ profile.memgraph /\ profile.agent_data /\ ~profile.secrets
            /\ profile.extra_vars = <<[key |-> "memgraph_enabled", value |-> "false"]>>
            /\ Len(c.argv) = 24
            /\ c.argv[22] = <<"memgraph_enabled", "=", "true">>
            /\ c.argv[24] = <<"memgraph_enabled", "=", "false">>

(***************************************************************************)
(* Properties of the agent-facing operations.                              *)
(***************************************************************************)
AgentOps == {"sandbox_down", "sandbox_destroy", "sandbox_exec", "sandbox_ssh_info"}

AgentCommandRan ==
    /\ cli.cmd = "sandbox_exec" /\ cli.pc = "exit"
    /\ cli.entry_vm = "Running" /\ cli.message = "result" /\ cli.cmds # <<>>

(***************************************************************************)
(* Properties of the config document across the gates and across runs.     *)
(***************************************************************************)
\* C26 (as claimed): whenever a run of orchestrate_up invokes create, or is
\* about to, write_config has written the config document earlier in the same
\* run, from the profile of the run; this holds even when the answer of the
\* existence check inside ensure_running differs from the answer at the
\* config gate.
C26_CreateUsesFreshConfig ==
    (run.pc = "create" \/ "create" \in Steps(run)) =>
        /\ run.wrote
        /\ run.written = build_context(profile, run.host0.fs).ctx.mounts
        /\ \E i \in Taken(run, "write_config") :
              \A j \in Taken(run, "create") : i < j

\* C27 (as claimed): whenever `up --fresh` exits with code 0 and the VM
\* existed when the command was called, the command deleted that VM, wrote a
\* config document and created the VM again from it.
C27_FreshRecreates ==
    (cli.cmd = "up" /\ cli.fresh /\ cli.pc = "exit" /\ cli.exit_code = 0
       /\ cli.entry_vm # "absent") =>
        /\ run.host0.vm = "absent"
        /\ run.wrote
        /\ Created(run) # {}
        /\ \E i \in Taken(run, "write_config") : \A j \in Created(run) : i < j

\* A call that has ended without returning 0.
Failed(r) == r.pc = "end" /\ ~(r.status = "returned" /\ r.rc = 0)

\* The answers both calls got from the same external query or tool are the
\* same: list queries, mount checks, show-ssh, the engine and rsync.
SameAnswers(r1, r2) ==
    /\ \A i \in DOMAIN r1.trace, j \in DOMAIN r2.trace :
          (r1.trace[i].step = r2.trace[j].step
             /\ r1.trace[i].step \notin {"write_config", "create", "start"}) =>
              /\ r1.trace[i].ok = r2.trace[j].ok
              /\ r1.trace[i].code = r2.trace[j].code
    /\ (r1.status_read # "unset" /\ r2.status_read # "unset") =>
          (r1.status_read = "unknown" <=> r2.status_read = "unknown")

\* C28 (as claimed): orchestrate_up has no rollback.  A VM that the first call
\* created is still there when that call has failed later on, and so is the
\* config document it wrote; the next call then takes the existing-VM branch
\* at the config gate and writes no config document.
C28_NoRollbackNextRunReuses ==
    (Created(twin.run) # {} /\ Failed(twin.run)) =>
        /\ twin.host.vm # "absent" /\ host.vm # "absent"
        /\ twin.host.generated_yaml = "new"
        /\ run.pc \notin {"vm_exists", "idle"} =>
              /\ run.exists
              /\ ~run.wrote /\ run.pc # "write_config"
              /\ "write_config" \notin Steps(run)

\* C29 (as claimed): after a call that returned 0, a second call with the
\* same profile, to which every query and tool answers as it answered to the
\* first, returns 0 as well, takes the existing-VM branch, and invokes none
\* of write_config, create and start.
C29_RerunIdempotent ==
    (twin.run.pc = "end" /\ twin.run.status = "returned" /\ twin.run.rc = 0
       /\ run.pc = "end" /\ SameAnswers(twin.run, run)) =>
        /\ run.status = "returned" /\ run.rc = 0
        /\ run.exists
        /\ Steps(run) \cap {"write_config", "create", "start"} = {}

(***************************************************************************)
(* Properties of the stop and destroy entry points.                        *)
(***************************************************************************)
\* C30 (as claimed): when sandbox_destroy has returned "deleted" or `destroy`
\* has printed "VM deleted.", the VM does not exist; when sandbox_down has
\* returned "stopped" or `down` has printed "VM stopped.", the VM is not
\* running.
C30_ReportedOutcomeMatchesVm ==
    cli.pc = "exit" =>
        /\ ((cli.cmd = "sandbox_destroy" /\ cli.message = "deleted")
              \/ (cli.cmd = "destroy" /\ cli.message = "VM deleted.")) =>
              host.vm = "absent"
        /\ ((cli.cmd = "sandbox_down" /\ cli.message = "stopped")
              \/ (cli.cmd = "down" /\ cli.message = "VM stopped.")) =>
              host.vm # "Running"

=============================================================================
